---- MODULE Spec2Model ----
(***************************************************************************)
(* dataprism-core, orchestration package: the remote-table orchestrator    *)
(* (DuckDBCloudIntegration), the dependency registry (DependencyRegistry), *)
(* the CORS-aware HTTP client (DataPrismHttpClient), its proxy service     *)
(* (ProxyService), the cache manager (CacheManager), the file handles and  *)
(* the schema cache of CloudStorageService, and the credential store       *)
(* (AuthManager), as state machines.  Every action is one synchronous run *)
(* of the event loop: the code between two awaits (or timer callbacks).    *)
(* An awaited collaborator (the SQL engine, fetch, a loader) settles in a  *)
(* later action with an outcome chosen by the environment.                 *)
(***************************************************************************)
EXTENDS Integers, Sequences, FiniteSets, TLC

VARIABLES
  \* ---- DuckDBCloudIntegration (src/unnamed/part_013) -------------------
  registeredTables,    \* Map<string, CloudTableConfig>
  sqlTables,           \* the SQL engine's namespace: table name -> contents
  virtualFiles,        \* the SQL engine's registered file buffers / texts
  proxiedAccess,       \* forced-proxy mode
  fallbackStrategies,  \* FallbackStrategy[]
  call,                \* the orchestrator calls in progress
  opsStarted,          \* number of orchestrator calls started so far
  \* ---- DependencyRegistry (dependency-registry.ts) ---------------------
  now,                 \* Date.now() and the timers' clock, in seconds
  dependencies,        \* Map<string, DependencyMetadata>: name -> record
  heap,                \* the DependencyMetadata objects, by identity
  loadingPromises,     \* Map<string, Promise>: name -> load
  timeouts,            \* Map<string, Timeout>: name -> load owning the timer
  chain,               \* the loads: executeLoad and its retries
  nChains,             \* number of loads started
  received,            \* the load each loadDependency call was handed
  regCalls,            \* number of calls made on the registry
  invoked,             \* the loaders (by call) that were ever invoked
  clears,              \* number of clearDependency / clearAll calls
  waiter,              \* a waitForDependency call
  events,              \* the lifecycle events emitted so far, in order
  listening,           \* DependencyEventSystem's handler is in eventHandlers
  \* ---- DataPrismHttpClient (src/unnamed/part_005), ProxyService --------
  corsCache,           \* Map<string, CorsSupport>: key -> verdict
  heads,               \* HEAD probes issued per key since the last clear
  req,                 \* the HTTP calls in progress
  netCalls,            \* number of calls made on the client and the proxy
  proxyObj,            \* the ProxyEndpoint objects, by identity
  nEndpoints,          \* number of ProxyEndpoint objects
  proxyEndpoints,      \* ProxyEndpoint[]: the list, in its order
  cacheDuration,       \* ProxyConfig.cacheDuration
  cache,               \* Map<string, CachedResponse>: key -> expiration
  \* ---- CacheManager (src/unnamed/part_010) ----------------------------
  cmEntries,           \* Map<string, CacheEntry>: key -> entry
  cmOrder,             \* the Map's iteration order: keys by insertion
  currentSize,         \* the byte total the manager tracks
  cmHung,              \* a set call is in a loop that never ends
  cmLast,              \* the last call on the manager and what it returned
  cmCalls,             \* number of calls made on the manager
  \* ---- FileHandle, CloudStorageService (src/unnamed/part_008) ---------
  handles,             \* the FileHandle objects and their Response's body
  fhCalls,             \* number of calls made on file handles
  schemaCache,         \* Map<string, FileSchema>: url -> schema
  schemaCall,          \* the getFileSchema calls in progress
  schemaCalls,         \* number of calls made on the schema cache
  schemaLog,           \* the calls that ended, in the order they ended
  \* ---- AuthManager (src/unnamed/part_012) -----------------------------
  credentials,         \* Map<CloudProvider, CloudCredentials>
  tokens,              \* Map<CloudProvider, TokenInfo>
  authLast,            \* the last call on the manager and what it returned
  authCalls,           \* number of calls made on the manager
  \* ---- DataPrismEngine (plugin-context.ts) ----------------------------
  initialized,         \* DataPrismEngine.initialized
  duckdb,              \* the DuckDBManager the facade holds (0: none)
  managers,            \* the DuckDBManager objects: connection open or not
  services,            \* the service fields that are not null
  arrowModule,         \* ArrowLoader has cached its module
  arrowRecord,         \* the registry holds a record for 'apache-arrow'
  depRecord,           \* the record the registry's map holds for 'duckdb'
  depObj,              \* the 'duckdb' record objects, by identity
  depLoads,            \* the loads of 'duckdb': executeLoad and its retries
  depPromise,          \* loadingPromises' entry for 'duckdb'
  depTimeout,          \* timeouts' entry for 'duckdb'
  initCall,            \* the initialize calls past the guard
  nInits,              \* number of those calls
  closeCall,           \* the close call in progress
  engLast,             \* the last call that ended and what it saw
  engCalls,            \* number of calls made on the facade
  closedSince          \* close() has resolved and initialize() not been called since

orchVars == <<registeredTables, sqlTables, virtualFiles, proxiedAccess,
              fallbackStrategies, call, opsStarted>>

regVars == <<dependencies, heap, loadingPromises, timeouts, chain,
             nChains, received, regCalls, invoked, clears, waiter, events,
             listening>>

netVars == <<corsCache, heads, req, netCalls, proxyObj, nEndpoints,
             proxyEndpoints, cacheDuration, cache>>

cacheVars == <<cmEntries, cmOrder, currentSize, cmHung, cmLast, cmCalls>>

fileVars == <<handles, fhCalls>>

schemaVars == <<schemaCache, schemaCall, schemaCalls, schemaLog>>

authVars == <<credentials, tokens, authLast, authCalls>>

engineVars == <<initialized, duckdb, managers, services, arrowModule, arrowRecord,
                depRecord, depObj, depLoads, depPromise, depTimeout, initCall,
                nInits, closeCall, engLast, engCalls, closedSince>>

\* What the actions of one component leave alone.
OrchOnly == UNCHANGED <<now, regVars, netVars, cacheVars, fileVars, schemaVars, authVars, engineVars>>
RegOnly == UNCHANGED <<orchVars, netVars, cacheVars, fileVars, schemaVars, authVars, engineVars>>
NetOnly == UNCHANGED <<orchVars, regVars, cacheVars, fileVars, schemaVars, authVars, engineVars>>
CacheOnly == UNCHANGED <<orchVars, regVars, netVars, fileVars, schemaVars, authVars, engineVars>>
FileOnly ==
  UNCHANGED <<now, orchVars, regVars, netVars, cacheVars, schemaVars, authVars, engineVars>>
SchemaOnly ==
  UNCHANGED <<now, orchVars, regVars, netVars, cacheVars, fileVars, authVars, engineVars>>
AuthOnly ==
  UNCHANGED <<now, orchVars, regVars, netVars, cacheVars, fileVars, schemaVars, engineVars>>
EngineOnly ==
  UNCHANGED <<now, orchVars, regVars, netVars, cacheVars, fileVars, schemaVars,
              authVars>>

vars == <<registeredTables, sqlTables, virtualFiles, proxiedAccess,
          fallbackStrategies, call, opsStarted,
          now, dependencies, heap, loadingPromises, timeouts, chain,
          nChains, received, regCalls, invoked, clears, waiter, events,
          listening,
          corsCache, heads, req, netCalls, proxyObj, nEndpoints,
          proxyEndpoints, cacheDuration, cache,
          cmEntries, cmOrder, currentSize, cmHung, cmLast, cmCalls,
          handles, fhCalls, schemaCache, schemaCall, schemaCalls, schemaLog,
          credentials, tokens, authLast, authCalls,
          initialized, duckdb, managers, services, arrowModule, arrowRecord,
          depRecord, depObj, depLoads, depPromise, depTimeout, initCall,
          nInits, closeCall, engLast, engCalls, closedSince>>

(***************************************************************************)
(*                    Remote-table orchestrator                            *)
(***************************************************************************)

\* Bound: calls made on the orchestrator in one behaviour, the two
\* configuration calls included.
MaxOps == 3

Calls == {"c1", "c2"}
Names == {"t1"}

\* A URL is its identity (which object it names) and its suffix.
Urls == { [id |-> "a", ext |-> "csv"],
          [id |-> "b", ext |-> "csv"],
          [id |-> "c", ext |-> "txt"] }
NoUrl == [id |-> "undefined", ext |-> "undefined"]

\* options.columns and options.where: no columns (or an empty list) and no
\* where clause (or an empty string) when the caller gives none.
NoOptions == [columns |-> <<>>, where |-> ""]
TableOptions == [columns : {<<>>, <<"a">>}, where : {"", "a > 1"}]

NoConfig == [url |-> NoUrl, corsHandling |-> "none", options |-> NoOptions]
\* A table is what its CREATE TABLE ... AS SELECT read: the select list and
\* the where clause of the statement, and the source it read from.
NoTable == [src |-> "no-table", select |-> <<>>, where |-> ""]
NoFile == "no-file"

\* The virtual file name `${tableName}.<ext>` registerProxiedTable uses for a
\* URL, by its suffix; "unsupported" for every other suffix.
VirtualExt(url) ==
  CASE url.ext = "parquet" -> "parquet"
    [] url.ext = "csv" -> "csv"
    [] url.ext \in {"json", "jsonl"} -> "json"
    [] OTHER -> "unsupported"

VirtualExts == {"parquet", "csv", "json"}

\* registerDirectTable accepts the same suffixes.
DirectSupported(url) == url.ext \in {"parquet", "csv", "json", "jsonl"}

DefaultFallback == <<"proxy", "cache", "error">>
FallbackConfigs == { DefaultFallback, <<"error", "proxy">>, <<"cache">> }

IdleCall == [op |-> "idle", pc |-> "idle", name |-> "t1", url |-> NoUrl,
             mode |-> "none", probe |-> "none", path |-> "none", err |-> "none",
             idx |-> 0, options |-> NoOptions, open |-> 0,
             fs |-> <<>>, tried |-> <<>>, res |-> "none", code |-> "none",
             rows |-> NoTable, dropIssued |-> FALSE, pre |-> FALSE, solo |-> FALSE]

Free(c) == call[c].pc \in {"idle", "done"}
Quiescent == \A c \in Calls : Free(c)

\* A call that starts while another is in progress is not alone, and neither
\* is the one in progress any more.
Begin(c, rec) ==
  [d \in Calls |->
     IF d = c THEN [rec EXCEPT !.solo = \A e \in Calls \ {c} : Free(e)]
     ELSE IF Free(d) THEN call[d] ELSE [call[d] EXCEPT !.solo = FALSE]]

\* options?.corsHandling || 'auto'
CorsHandlingOptions == {"undefined", "auto", "direct", "proxy"}
CorsHandlingOf(option) == IF option = "undefined" THEN "auto" ELSE option

\* A choice of path that looks at the handling alone.
RegisterPathUnforced(mode, forced) == IF mode = "proxy" THEN "proxied" ELSE "direct"

\* registerCloudTable chooses the proxied path for 'proxy' and in forced-proxy
\* mode, the direct path otherwise.
RegisterPath(mode, forced) == IF mode = "proxy" \/ forced THEN "proxied" ELSE "direct"

\* registerCloudTable up to its first await: the CORS probe for 'auto', the
\* connect() of registerProxiedTable / registerDirectTable otherwise.
RegisterBegin(c, optionSet) ==
  /\ Free(c) /\ opsStarted < MaxOps
  /\ \E n \in Names, u \in Urls, option \in CorsHandlingOptions,
        options \in optionSet :
       LET h == CorsHandlingOf(option) IN
       call' = Begin(c, [IdleCall EXCEPT
                 !.op = "register", !.name = n, !.url = u, !.mode = h,
                 !.options = options,
                 !.pc = IF h = "auto" THEN "probe" ELSE "connect",
                 !.path = IF h = "auto" THEN "none"
                          ELSE RegisterPath(h, proxiedAccess),
                 !.pre = registeredTables[n] # NoConfig])
  /\ opsStarted' = opsStarted + 1
  /\ OrchOnly
  /\ UNCHANGED <<registeredTables, sqlTables, virtualFiles, proxiedAccess,
                 fallbackStrategies>>

\* registerCloudTable(tableName, url, options) without columns and where.
RegisterStart(c) == RegisterBegin(c, {NoOptions})

\* registerCloudTable(tableName, url, options) with or without them.
RegisterWithOptions(c) == RegisterBegin(c, TableOptions)

\* The probe settles: direct access supported, not supported, or it threw.
RegisterProbed(c) ==
  /\ call[c].pc = "probe"
  /\ \E verdict \in {"direct", "proxy", "threw"} :
       LET m == IF verdict = "direct" THEN "direct" ELSE "proxy" IN
       call' = [call EXCEPT ![c].mode = m, ![c].pc = "connect", ![c].probe = verdict,
                            ![c].path = RegisterPath(m, proxiedAccess)]
  /\ OrchOnly
  /\ UNCHANGED <<registeredTables, sqlTables, virtualFiles, proxiedAccess,
                 fallbackStrategies, opsStarted>>

\* A finished call keeps what it was asked and how it ended; a registration
\* also why it failed: "env" (a collaborator failed), "exists" (CREATE TABLE
\* on an existing table) or "format" (unsupported suffix); a query also the
\* strategies it iterated over, the ones it ran, and the code of the error it
\* threw ("Error" for an error without a code).
Done(rec, result) ==
  [IdleCall EXCEPT !.op = rec.op, !.pc = "done", !.name = rec.name,
                   !.res = result, !.rows = IF result = "ok" THEN rec.rows ELSE NoTable,
                   !.err = IF rec.op = "register" THEN rec.err ELSE "none",
                   !.fs = rec.fs, !.tried = rec.tried,
                   !.code = IF result = "ok" THEN "none"
                            ELSE IF rec.op = "register" THEN "TABLE_REGISTRATION_FAILED"
                            ELSE rec.code,
                   !.dropIssued = rec.dropIssued, !.open = rec.open,
                   !.pre = rec.pre, !.solo = rec.solo]

\* The call has a connection more (connect() resolved), or one less
\* (close() was called on it); open counts the connections of the call on
\* which close() has not been called.
Opened(rec) == [rec EXCEPT !.open = @ + 1]
Released(rec) == [rec EXCEPT !.open = @ - 1]

\* queryCloudTable's loop over the fallback strategies from position i on:
\* 'cache' and 'error' throw inside executeWithFallback, the loop's catch goes
\* on to the next strategy; 'proxy' re-registers the table through
\* registerProxiedTable with the registry's config of that moment; past the
\* last strategy QUERY_FAILED is thrown and the finally closes the connection.
RECURSIVE FallbackFrom(_, _, _)
FallbackFrom(rec, i, reg) ==
  IF i > Len(rec.fs)
  THEN [rec EXCEPT !.pc = "q_close", !.res = "fail", !.code = "QUERY_FAILED",
                   !.idx = i, !.err = "none"]
  ELSE IF rec.fs[i] = "proxy"
  THEN [rec EXCEPT !.pc = "connect", !.path = "proxied", !.idx = i,
                   !.tried = Append(@, rec.fs[i]),
                   !.url = reg[rec.name].url, !.err = "none"]
  ELSE FallbackFrom([rec EXCEPT !.tried = Append(@, rec.fs[i])], i + 1, reg)

\* A failure of the registration steps: registerCloudTable rethrows it as
\* TABLE_REGISTRATION_FAILED; in a query's fallback the loop goes on.
PipelineFailed(rec, reg) ==
  IF rec.op = "register" THEN Done(rec, "fail")
  ELSE FallbackFrom(rec, rec.idx + 1, reg)

\* duckdb.connect() of registerProxiedTable / registerDirectTable settles. The
\* probe's verdict is not read again once the path is taken.
Connected(c) ==
  /\ call[c].pc = "connect"
  /\ \/ call' = [call EXCEPT ![c] = PipelineFailed([call[c] EXCEPT !.err = "env"],
                                                    registeredTables)]
     \/ /\ call[c].path = "proxied"
        /\ call' = [call EXCEPT ![c].pc = "fetch", ![c].probe = "none",
                                ![c].open = @ + 1]
     \/ /\ call[c].path = "direct"
        /\ call' = [call EXCEPT
                      ![c].probe = "none", ![c].open = @ + 1,
                      ![c].pc = IF DirectSupported(call[c].url) THEN "create" ELSE "close",
                      ![c].err = IF DirectSupported(call[c].url) THEN "none"
                                 ELSE "format"]
  /\ OrchOnly
  /\ UNCHANGED <<registeredTables, sqlTables, virtualFiles, proxiedAccess,
                 fallbackStrategies, opsStarted>>

\* cloudStorage.getFile(url, proxy) and the reading of its body settle.
Fetched(c) ==
  /\ call[c].pc = "fetch"
  /\ \/ /\ call[c].url # NoUrl
        /\ call' = [call EXCEPT
                      ![c].pc = IF VirtualExt(call[c].url) = "unsupported"
                                THEN "close" ELSE "regfile",
                      ![c].err = IF VirtualExt(call[c].url) = "unsupported"
                                 THEN "format" ELSE "none"]
     \/ call' = [call EXCEPT ![c].pc = "close", ![c].err = "env"]
  /\ OrchOnly
  /\ UNCHANGED <<registeredTables, sqlTables, virtualFiles, proxiedAccess,
                 fallbackStrategies, opsStarted>>

\* registerFileBuffer / registerFileText under `${tableName}.<ext>` settles.
FileRegistered(c) ==
  /\ call[c].pc = "regfile"
  /\ \/ /\ virtualFiles' = [virtualFiles EXCEPT
                              ![<<call[c].name, VirtualExt(call[c].url)>>] = call[c].url.id]
        /\ call' = [call EXCEPT ![c].pc = "create"]
     \/ /\ call' = [call EXCEPT ![c].pc = "close", ![c].err = "env"]
        /\ UNCHANGED virtualFiles
  /\ OrchOnly
  /\ UNCHANGED <<registeredTables, sqlTables, proxiedAccess, fallbackStrategies,
                 opsStarted>>

\* What the CREATE TABLE ... AS SELECT reads: the URL itself on the direct
\* path, the virtual file of that name on the proxied path.
CreateSource(rec) ==
  IF rec.path = "direct" THEN rec.url.id
  ELSE virtualFiles[<<rec.name, VirtualExt(rec.url)>>]

\* The statement with the options put into it: 'SELECT *' is replaced by
\* the columns if there are any, and a WHERE is appended if there is one.
WithOptions(source, options) ==
  [src |-> source,
   select |-> IF Len(options.columns) > 0 THEN options.columns ELSE <<"*">>,
   where |-> options.where]

\* The statement as it is first written: SELECT * and no WHERE.
SelectAll(source, options) == WithOptions(source, NoOptions)

\* The statement registerDirectTable sends.
DirectStatement(source, options) == WithOptions(source, options)

\* The statement registerProxiedTable sends.
ProxiedStatement(source, options) == SelectAll(source, options)

\* The table the statement of the call's path creates.
CreateTable(rec) ==
  IF rec.path = "direct" THEN DirectStatement(CreateSource(rec), rec.options)
  ELSE ProxiedStatement(CreateSource(rec), rec.options)

\* The engine runs CREATE TABLE <name> AS SELECT ...: an existing table of
\* that name makes the statement fail; otherwise it succeeds or fails.
CanCreate(tables, n) == tables[n] = NoTable

Created(c) ==
  /\ call[c].pc = "create"
  /\ \/ /\ CanCreate(sqlTables, call[c].name)
        /\ sqlTables' = [sqlTables EXCEPT ![call[c].name] = CreateTable(call[c])]
        /\ call' = [call EXCEPT ![c].pc = "close"]
     \/ /\ call' = [call EXCEPT ![c].pc = "close",
                                ![c].err = IF CanCreate(sqlTables, call[c].name)
                                           THEN "env" ELSE "exists"]
        /\ UNCHANGED sqlTables
  /\ OrchOnly
  /\ UNCHANGED <<registeredTables, virtualFiles, proxiedAccess, fallbackStrategies,
                 opsStarted>>

\* The registry entry registerCloudTable writes after a successful registration.
RegistryAfterRegister(reg, rec) ==
  [reg EXCEPT ![rec.name] = [url |-> rec.url, corsHandling |-> rec.mode,
                             options |-> rec.options]]

\* connection.close() in the finally of the registration settles; then
\* registerCloudTable sets the registry entry, or a query's fallback goes on
\* to retry the query on a new connection.
Closed(c) ==
  /\ call[c].pc = "close"
  /\ \E closeOk \in BOOLEAN :
       IF call[c].err # "none" \/ ~closeOk
       THEN /\ call' = [call EXCEPT ![c] =
                         PipelineFailed([Released(call[c]) EXCEPT
                                           !.err = IF closeOk THEN @ ELSE "env"],
                                        registeredTables)]
            /\ UNCHANGED registeredTables
       ELSE IF call[c].op = "register"
       THEN /\ registeredTables' = RegistryAfterRegister(registeredTables, call[c])
            /\ call' = [call EXCEPT ![c] = Done(Released(call[c]), "ok")]
       ELSE /\ call' = [call EXCEPT ![c] = [Released(call[c]) EXCEPT !.pc = "fb_connect2"]]
            /\ UNCHANGED registeredTables
  /\ OrchOnly
  /\ UNCHANGED <<sqlTables, virtualFiles, proxiedAccess, fallbackStrategies,
                 opsStarted>>

\* queryCloudTable up to its connect(): an unregistered name throws.
QueryStart(c) ==
  /\ Free(c) /\ opsStarted < MaxOps
  /\ \E n \in Names :
       LET rec == [IdleCall EXCEPT !.op = "query", !.name = n, !.code = "Error",
                                   !.pre = registeredTables[n] # NoConfig] IN
       call' = Begin(c, IF registeredTables[n] = NoConfig
                        THEN Done(rec, "fail")
                        ELSE [rec EXCEPT !.pc = "q_connect"])
  /\ opsStarted' = opsStarted + 1
  /\ OrchOnly
  /\ UNCHANGED <<registeredTables, sqlTables, virtualFiles, proxiedAccess,
                 fallbackStrategies>>

\* connect() is outside the try: its failure leaves queryCloudTable directly.
QueryConnected(c) ==
  /\ call[c].pc = "q_connect"
  /\ \/ call' = [call EXCEPT ![c] = Done(call[c], "fail")]
     \/ call' = [call EXCEPT ![c] = [Opened(call[c]) EXCEPT !.pc = "q_query"]]
  /\ OrchOnly
  /\ UNCHANGED <<registeredTables, sqlTables, virtualFiles, proxiedAccess,
                 fallbackStrategies, opsStarted>>

\* The engine answers a query on <name> only when it has that table.
CanQuery(tables, n) == tables[n] # NoTable

\* The first query settles: its rows, or the fallback loop starts over the
\* strategies configured at that moment.
QueryRan(c) ==
  /\ call[c].pc = "q_query"
  /\ \/ /\ CanQuery(sqlTables, call[c].name)
        /\ call' = [call EXCEPT ![c].pc = "q_close", ![c].res = "ok",
                                ![c].rows = sqlTables[call[c].name]]
     \/ call' = [call EXCEPT ![c] =
                   FallbackFrom([call[c] EXCEPT !.fs = fallbackStrategies], 1,
                                registeredTables)]
  /\ OrchOnly
  /\ UNCHANGED <<registeredTables, sqlTables, virtualFiles, proxiedAccess,
                 fallbackStrategies, opsStarted>>

\* executeWithFallback's own connect() after the re-registration.
FallbackConnected(c) ==
  /\ call[c].pc = "fb_connect2"
  /\ \/ call' = [call EXCEPT ![c] = PipelineFailed(call[c], registeredTables)]
     \/ call' = [call EXCEPT ![c] = [Opened(call[c]) EXCEPT !.pc = "fb_query"]]
  /\ OrchOnly
  /\ UNCHANGED <<registeredTables, sqlTables, virtualFiles, proxiedAccess,
                 fallbackStrategies, opsStarted>>

\* executeWithFallback's retry of the query.
FallbackQueryRan(c) ==
  /\ call[c].pc = "fb_query"
  /\ \/ /\ CanQuery(sqlTables, call[c].name)
        /\ call' = [call EXCEPT ![c].pc = "fb_close2",
                                ![c].rows = sqlTables[call[c].name]]
     \/ call' = [call EXCEPT ![c].pc = "fb_close2", ![c].err = "env"]
  /\ OrchOnly
  /\ UNCHANGED <<registeredTables, sqlTables, virtualFiles, proxiedAccess,
                 fallbackStrategies, opsStarted>>

\* executeWithFallback's finally: the strategy returns its rows, or it failed.
FallbackClosed(c) ==
  /\ call[c].pc = "fb_close2"
  /\ \E closeOk \in BOOLEAN :
       call' = [call EXCEPT ![c] =
                  IF call[c].err # "none" \/ ~closeOk
                  THEN PipelineFailed([Released(call[c]) EXCEPT !.rows = NoTable],
                                      registeredTables)
                  ELSE [Released(call[c]) EXCEPT !.pc = "q_close", !.res = "ok"]]
  /\ OrchOnly
  /\ UNCHANGED <<registeredTables, sqlTables, virtualFiles, proxiedAccess,
                 fallbackStrategies, opsStarted>>

\* queryCloudTable's finally: a failing close() replaces the outcome.
QueryClosed(c) ==
  /\ call[c].pc = "q_close"
  /\ \E closeOk \in BOOLEAN :
       call' = [call EXCEPT ![c] =
                  IF closeOk THEN Done(Released(call[c]), call[c].res)
                  ELSE Done([Released(call[c]) EXCEPT !.code = "Error"], "fail")]
  /\ OrchOnly
  /\ UNCHANGED <<registeredTables, sqlTables, virtualFiles, proxiedAccess,
                 fallbackStrategies, opsStarted>>

\* A registry that keeps every entry.
RegistryKeep(reg, n) == reg

\* registeredTables.delete(tableName)
RegistryDelete(reg, n) == [reg EXCEPT ![n] = NoConfig]

\* unregisterCloudTable up to its connect(): an unregistered name returns.
UnregisterStart(c) ==
  /\ Free(c) /\ opsStarted < MaxOps
  /\ \E n \in Names :
       LET rec == [IdleCall EXCEPT !.op = "unregister", !.name = n,
                                   !.pre = registeredTables[n] # NoConfig] IN
       call' = Begin(c, IF registeredTables[n] = NoConfig
                        THEN Done(rec, "ok")
                        ELSE [rec EXCEPT !.pc = "u_connect"])
  /\ opsStarted' = opsStarted + 1
  /\ OrchOnly
  /\ UNCHANGED <<registeredTables, sqlTables, virtualFiles, proxiedAccess,
                 fallbackStrategies>>

\* connect() settles and DROP TABLE IF EXISTS is issued; connect()'s failure
\* is caught and the registry entry removed.
UnregisterConnected(c) ==
  /\ call[c].pc = "u_connect"
  /\ \/ /\ call' = [call EXCEPT ![c].pc = "u_drop", ![c].dropIssued = TRUE,
                                ![c].open = @ + 1]
        /\ UNCHANGED registeredTables
     \/ /\ registeredTables' = RegistryDelete(registeredTables, call[c].name)
        /\ call' = [call EXCEPT ![c] = Done(call[c], "ok")]
  /\ OrchOnly
  /\ UNCHANGED <<sqlTables, virtualFiles, proxiedAccess, fallbackStrategies,
                 opsStarted>>

\* DROP TABLE IF EXISTS settles; its failure is caught, the table stays and
\* the registry entry is removed.
UnregisterDropped(c) ==
  /\ call[c].pc = "u_drop"
  /\ \/ /\ sqlTables' = [sqlTables EXCEPT ![call[c].name] = NoTable]
        /\ call' = [call EXCEPT ![c].pc = "u_close"]
        /\ UNCHANGED registeredTables
     \/ /\ registeredTables' = RegistryDelete(registeredTables, call[c].name)
        /\ call' = [call EXCEPT ![c] = Done(call[c], "ok")]
        /\ UNCHANGED sqlTables
  /\ OrchOnly
  /\ UNCHANGED <<virtualFiles, proxiedAccess, fallbackStrategies, opsStarted>>

\* close() settles; the entry is removed after it, or in the catch.
UnregisterClosed(c) ==
  /\ call[c].pc = "u_close"
  /\ registeredTables' = RegistryDelete(registeredTables, call[c].name)
  /\ call' = [call EXCEPT ![c] = Done(Released(call[c]), "ok")]
  /\ OrchOnly
  /\ UNCHANGED <<sqlTables, virtualFiles, proxiedAccess, fallbackStrategies,
                 opsStarted>>

enableProxiedAccess ==
  /\ opsStarted < MaxOps
  /\ \E enable \in BOOLEAN : enable # proxiedAccess /\ proxiedAccess' = enable
  /\ opsStarted' = opsStarted + 1
  /\ OrchOnly
  /\ UNCHANGED <<registeredTables, sqlTables, virtualFiles, fallbackStrategies,
                 call>>

configureFallbackStrategies ==
  /\ \E strategies \in FallbackConfigs :
       strategies # fallbackStrategies /\ fallbackStrategies' = strategies
  /\ opsStarted < MaxOps
  /\ opsStarted' = opsStarted + 1
  /\ OrchOnly
  /\ UNCHANGED <<registeredTables, sqlTables, virtualFiles, proxiedAccess,
                 call>>

OrchNext ==
  \/ \E c \in Calls :
       \/ RegisterStart(c) \/ RegisterProbed(c)
       \/ Connected(c) \/ Fetched(c) \/ FileRegistered(c) \/ Created(c) \/ Closed(c)
       \/ QueryStart(c) \/ QueryConnected(c) \/ QueryRan(c)
       \/ FallbackConnected(c) \/ FallbackQueryRan(c) \/ FallbackClosed(c)
       \/ QueryClosed(c)
       \/ UnregisterStart(c) \/ UnregisterConnected(c) \/ UnregisterDropped(c)
       \/ UnregisterClosed(c)
  \/ enableProxiedAccess
  \/ configureFallbackStrategies

\* Registrations with options, made one after the other, and the steps that
\* settle them.
SerialCalls == {"c1"}
OptionsNext ==
  \E c \in SerialCalls :
    \/ RegisterWithOptions(c) \/ RegisterProbed(c)
    \/ Connected(c) \/ Fetched(c) \/ FileRegistered(c) \/ Created(c) \/ Closed(c)


(***************************************************************************)
(*                        Dependency registry                              *)
(***************************************************************************)

\* Bounds: the clock's horizon, and how many calls one behaviour makes on
\* the registry.
MaxTime == 3
MaxCalls == 3

\* registerDependency's defaults; one unit of time is 1000 ms.
DefaultMaxRetries == 3
DefaultTimeout == 30
DefaultRetryDelay == 1

DepNames == {"duckdb"}
\* A name has one load at a time until a clear forgets it.
Chains == 1..(Cardinality(DepNames) * ((MaxCalls + 1) \div 2))
\* Enough objects for the map's records and the ones loads still hold.
Objs == 1..(Cardinality(DepNames) + Cardinality(Chains))
LoadCalls == 1..MaxCalls

\* DependencyLoadOptions a caller passes; 0 stands for an absent option.
LoadOptions == [timeout : {2}, maxRetries : {1}, retryDelay : {0}]

\* What a loader's promise settles with: a module object or null/undefined,
\* or an error whose message is of one of these kinds.
ModuleValues == {"module", "null"}
ErrorKinds == {"network", "cors"}

FreeObj == [state |-> "free", retryCount |-> 0, maxRetries |-> 0, timeoutMs |-> 0,
            module |-> "null", error |-> "none"]

\* A load: started by the loadDependency call `loader`; obj is the record its
\* running attempt captured.  started, produced and fatal record the time of
\* the call, whether a loader has resolved, and whether a loader has rejected
\* with an error createRetryStrategy never retries; attempts counts the
\* loader's invocations and limit is the maxRetries that ended the load.
FreeChain == [phase |-> "free", name |-> "duckdb", obj |-> 0, loader |-> 0,
              timer |-> FALSE, deadline |-> 0, retryAt |-> 0,
              promise |-> "pending", value |-> "none", retryDelay |-> 0,
              started |-> 0, produced |-> FALSE, fatal |-> FALSE, epoch |-> 0,
              attempts |-> 0, limit |-> 0]

FreeWaiter == [status |-> "free", name |-> "duckdb", handler |-> FALSE,
               deadline |-> 0, value |-> "none"]

\* What a loadDependency call was handed: the load whose promise it received,
\* how many clears had been made when it was called, and whether that
\* promise had settled by then.
NoCall == [promise |-> 0, epoch |-> 0, settled |-> FALSE]

\* The objects still reachable: the map's records and the record a running
\* attempt captured.  The others are forgotten.
Referenced(deps, chs) ==
  ({deps[n] : n \in DepNames} \cup {chs[id].obj : id \in Chains}) \ {0}

Collect(h, deps, chs) ==
  [o \in Objs |-> IF o \in Referenced(deps, chs) THEN h[o] ELSE FreeObj]

NewObj(deps, chs) ==
  CHOOSE o \in Objs \ Referenced(deps, chs) :
    \A p \in Objs \ Referenced(deps, chs) : o <= p

\* The record registerDependency builds.
NewRecord(options) ==
  [state |-> "initializing", retryCount |-> 0,
   maxRetries |-> IF options.maxRetries = 0 THEN DefaultMaxRetries ELSE options.maxRetries,
   timeoutMs |-> IF options.timeout = 0 THEN DefaultTimeout ELSE options.timeout,
   module |-> "null", error |-> "none"]

\* setState: the state of the record the map holds for the name, if any.
SetState(h, deps, name, state) ==
  IF deps[name] = 0 THEN h ELSE [h EXCEPT ![deps[name]].state = state]

\* A waitForDependency handler receiving an event of the registry.
Deliver(w, type, name, module) ==
  IF w.status = "pending" /\ w.handler /\ w.name = name
  THEN IF type = "ready"
       THEN [w EXCEPT !.status = "resolved", !.value = module, !.deadline = 0]
       ELSE IF type \in {"error", "timeout"}
       THEN [w EXCEPT !.status = "rejected", !.value = type, !.deadline = 0]
       ELSE w
  ELSE w

\* resolve / reject of a load's promise: only the first settlement counts.
Settle(ch, how, value) ==
  IF ch.promise = "pending" THEN [ch EXCEPT !.promise = how, !.value = value] ELSE ch

\* A load whose loader has settled for the last time.
Ended(ch) ==
  [ch EXCEPT !.phase = "ended", !.obj = 0, !.timer = FALSE, !.deadline = 0,
             !.retryAt = 0, !.retryDelay = 0]

\* The number of loadDependency calls made so far.
NumLoadCalls == Cardinality({k \in LoadCalls : received[k] # NoCall})

\* registerDependency(name, options): a new record replaces any present one;
\* a 'loading' event is emitted.
\* getSpecificReadyEventType
getSpecificReadyEventType(dependency) ==
  CASE dependency = "apache-arrow" -> "arrowReady"
    [] dependency = "duckdb" -> "duckdbReady"
    [] dependency = "wasm-core" -> "wasmReady"
    [] OTHER -> "dependencyReady"

\* mapRegistryEventType
mapRegistryEventType(type, dependency) ==
  CASE type = "loading" -> "dependencyLoading"
    [] type = "ready" -> getSpecificReadyEventType(dependency)
    [] type = "error" -> "dependencyError"
    [] type = "timeout" -> "dependencyTimeout"
    [] type = "retry" -> "dependencyRetry"
    [] OTHER -> "dependencyLoading"

\* A handler list that clearAll has not emptied.
HandlersKept(handlers) == handlers

\* this.eventHandlers.length = 0
HandlersCleared(handlers) == FALSE

\* emitEvent calls the handlers in eventHandlers: DependencyEventSystem's,
\* when it is there, maps the event and emits it to its subscribers.
handleRegistryEvent(log, handler, type, dependency) ==
  IF handler
  THEN Append(log, [type |-> mapRegistryEventType(type, dependency),
                    dependency |-> dependency])
  ELSE log

registerDependency ==
  /\ regCalls < MaxCalls /\ regCalls' = regCalls + 1
  /\ \E n \in DepNames, options \in LoadOptions :
       LET o == NewObj([dependencies EXCEPT ![n] = 0], chain)
           deps1 == [dependencies EXCEPT ![n] = o]
       IN /\ heap' = Collect([heap EXCEPT ![o] = NewRecord(options)], deps1, chain)
          /\ dependencies' = deps1
          /\ waiter' = Deliver(waiter, "loading", n, "null")
  /\ events' = Append(events, "loading")
  /\ UNCHANGED listening
  /\ RegOnly
  /\ UNCHANGED <<now, loadingPromises, timeouts, chain, nChains, received,
                 invoked, clears>>

\* A gate that never finds a load in the map.
NoLoadInFlight(promises, n) == FALSE

\* A gate that lets a call through once the load in the map has settled.
LoadPending(promises, n) == promises[n] # 0 /\ chain[promises[n]].promise = "pending"

\* loadDependency's gate: a load of that name is already in the map.
LoadInFlight(promises, n) == promises[n] # 0

\* loadDependency(name, loader, options) with a load in the map: the caller
\* receives that load's promise and its loader is dropped.
loadDependencyGated ==
  /\ regCalls < MaxCalls /\ regCalls' = regCalls + 1
  /\ \E n \in DepNames :
       /\ LoadInFlight(loadingPromises, n)
       /\ received' = [received EXCEPT ![NumLoadCalls + 1] =
                                   [promise |-> loadingPromises[n], epoch |-> clears,
                                    settled |-> chain[loadingPromises[n]].promise # "pending"]]
  /\ UNCHANGED listening
  /\ RegOnly
  /\ UNCHANGED events
  /\ UNCHANGED <<now, dependencies, heap, loadingPromises, timeouts, chain,
                 nChains, invoked, clears, waiter>>

\* executeLoad up to the loader's await: the deadline timer of the record's
\* timeoutMs is armed, the record set to loading and the loader invoked.
Attempt(ch, o, timeoutMs, t) ==
  [ch EXCEPT !.phase = "loading", !.obj = o, !.timer = TRUE,
             !.deadline = t + timeoutMs, !.retryAt = 0, !.attempts = @ + 1]

\* loadDependency(name, loader, options) with no load in the map: the record
\* is created if absent, executeLoad starts and its promise is stored.
loadDependency ==
  /\ regCalls < MaxCalls /\ regCalls' = regCalls + 1
  /\ nChains < Cardinality(Chains)
  /\ \E n \in DepNames, options \in LoadOptions :
       LET fresh == dependencies[n] = 0
           o == IF fresh THEN NewObj(dependencies, chain) ELSE dependencies[n]
           heap1 == IF fresh THEN [heap EXCEPT ![o] = NewRecord(options)] ELSE heap
           id == nChains + 1
           k == NumLoadCalls + 1
       IN /\ ~LoadInFlight(loadingPromises, n)
          /\ dependencies' = [dependencies EXCEPT ![n] = o]
          /\ heap' = [heap1 EXCEPT ![o].state = "loading"]
          /\ chain' = [chain EXCEPT ![id] =
                         Attempt([FreeChain EXCEPT
                                    !.name = n, !.loader = k, !.started = now,
                                    !.retryDelay = options.retryDelay,
                                    !.epoch = clears],
                                 o, heap1[o].timeoutMs, now)]
          /\ timeouts' = [timeouts EXCEPT ![n] = id]
          /\ loadingPromises' = [loadingPromises EXCEPT ![n] = id]
          /\ received' = [received EXCEPT ![k] = [promise |-> id, epoch |-> clears,
                                                settled |-> FALSE]]
          /\ invoked' = invoked \cup {k}
          /\ waiter' = IF fresh THEN Deliver(waiter, "loading", n, "null") ELSE waiter
          /\ events' = IF fresh THEN Append(events, "loading") ELSE events
  /\ nChains' = nChains + 1
  /\ UNCHANGED listening
  /\ RegOnly
  /\ UNCHANGED <<now, clears>>

\* The loader's promise resolves with a module: the deadline timer is
\* cleared, the captured record gets the module, the record the map holds is
\* set to ready, a 'ready' event carries a copy of the captured record, and
\* the load's promise resolves.
LoaderResolves(id) ==
  /\ chain[id].phase = "loading"
  /\ \E m \in ModuleValues :
       LET ch == chain[id]
           heap1 == [heap EXCEPT ![ch.obj].module = m]
           chain1 == [chain EXCEPT ![id] =
                        Settle(Ended([ch EXCEPT !.produced = TRUE]), "resolved", m)]
       IN /\ heap' = Collect(SetState(heap1, dependencies, ch.name, "ready"),
                             dependencies, chain1)
          /\ chain' = chain1
          /\ waiter' = Deliver(waiter, "ready", ch.name, m)
          /\ events' = Append(events, "ready")
          /\ timeouts' = [timeouts EXCEPT ![ch.name] = 0]
  /\ UNCHANGED listening
  /\ RegOnly
  /\ UNCHANGED <<regCalls, now, dependencies, loadingPromises, nChains, received,
                 invoked, clears>>

\* createRetryStrategy's verdict on an error message, whatever the retry
\* count: CORS and 404 / not found are never retried, nor is a missing
\* SharedArrayBuffer for duckdb or a missing WebAssembly for wasm-core.
NonRetryable(name, kind) ==
  \/ kind \in {"cors", "404", "not found"}
  \/ name = "duckdb" /\ kind = "sharedarraybuffer"
  \/ name = "wasm-core" /\ kind = "webassembly"

\* executeLoad's decision after a rejection: retry while the captured
\* record's retryCount is below its maxRetries, whatever the error.
ShouldRetry(rec, name, kind) == rec.retryCount < rec.maxRetries

\* The delay before the retry, after retryCount has been incremented.
RetryDelay(option, retryCount) ==
  IF option # 0 THEN option ELSE DefaultRetryDelay * retryCount

\* The loader's promise rejects: the deadline timer is cleared and either a
\* retry is scheduled or the record goes to error and the promise rejects.
LoaderRejects(id) ==
  /\ chain[id].phase = "loading"
  /\ \E kind \in ErrorKinds :
       LET ch == [chain[id] EXCEPT !.fatal = @ \/ NonRetryable(chain[id].name, kind)]
           rec == heap[ch.obj]
           heap1 == [heap EXCEPT ![ch.obj].error = "DEPENDENCY_LOAD_ERROR"]
           retrying == [ch EXCEPT !.phase = "retrywait", !.obj = 0, !.timer = FALSE,
                                  !.deadline = 0,
                                  !.retryAt = now + RetryDelay(ch.retryDelay,
                                                               rec.retryCount + 1)]
           chain1 == [chain EXCEPT ![id] =
                        IF ShouldRetry(rec, ch.name, kind) THEN retrying
                        ELSE Settle(Ended([ch EXCEPT !.limit = rec.maxRetries]),
                                    "rejected", "DEPENDENCY_LOAD_ERROR")]
       IN IF ShouldRetry(rec, ch.name, kind)
          THEN /\ heap' = Collect([heap1 EXCEPT ![ch.obj].retryCount = @ + 1],
                                  dependencies, chain1)
               /\ chain' = chain1
               /\ waiter' = Deliver(waiter, "retry", ch.name, rec.module)
               /\ events' = Append(events, "retry")
          ELSE /\ heap' = Collect(SetState(heap1, dependencies, ch.name, "error"),
                                  dependencies, chain1)
               /\ chain' = chain1
               /\ waiter' = Deliver(waiter, "error", ch.name, rec.module)
               /\ events' = Append(events, "error")
  /\ timeouts' = [timeouts EXCEPT ![chain[id].name] = 0]
  /\ UNCHANGED listening
  /\ RegOnly
  /\ UNCHANGED <<regCalls, now, dependencies, loadingPromises, nChains, received,
                 invoked, clears>>

\* The retry timer fires: executeLoad runs again on the record the map holds
\* now, with a new deadline timer, and invokes the loader again; without a
\* record the executor throws and the load's promise rejects.
RetryFires(id) ==
  /\ chain[id].phase = "retrywait" /\ now >= chain[id].retryAt
  /\ LET ch == chain[id]
         o == dependencies[ch.name]
     IN IF o = 0
        THEN /\ chain' = [chain EXCEPT ![id] = Settle(Ended(ch), "rejected", "TypeError")]
             /\ UNCHANGED <<heap, timeouts, invoked>>
        ELSE /\ chain' = [chain EXCEPT ![id] = Attempt(ch, o, heap[o].timeoutMs, now)]
             /\ heap' = [heap EXCEPT ![o].state = "loading"]
             /\ timeouts' = [timeouts EXCEPT ![ch.name] = id]
             /\ invoked' = invoked \cup {ch.loader}
  /\ UNCHANGED listening
  /\ RegOnly
  /\ UNCHANGED events
  /\ UNCHANGED <<regCalls, now, dependencies, loadingPromises, nChains, received,
                 clears, waiter>>

\* The deadline timer fires before the loader has settled: the record the
\* map holds is set to timeout, a 'timeout' event is emitted and the load's
\* promise rejects with DEPENDENCY_TIMEOUT.  The loader stays in flight.
DeadlineFires(id) ==
  /\ chain[id].timer /\ now >= chain[id].deadline
  /\ LET ch == chain[id]
         heap1 == SetState(heap, dependencies, ch.name, "timeout")
     IN /\ heap' = [heap1 EXCEPT ![ch.obj].error = "DEPENDENCY_TIMEOUT"]
        /\ chain' = [chain EXCEPT ![id] =
                       Settle([ch EXCEPT !.timer = FALSE, !.deadline = 0],
                              "rejected", "DEPENDENCY_TIMEOUT")]
        /\ waiter' = Deliver(waiter, "timeout", ch.name, heap[ch.obj].module)
        /\ events' = Append(events, "timeout")
  /\ UNCHANGED listening
  /\ RegOnly
  /\ UNCHANGED <<regCalls, now, dependencies, loadingPromises, timeouts, nChains,
                 received, invoked, clears>>

\* waitForDependency(name, timeoutMs) up to its return: an unregistered name
\* and a record in error throw, a ready record returns its module, any other
\* state subscribes a handler and arms a timer.
waitForDependency ==
  /\ waiter.status # "pending"
  /\ regCalls < MaxCalls /\ regCalls' = regCalls + 1
  /\ \E n \in DepNames, t \in {1} :
       LET o == dependencies[n]
           w == [FreeWaiter EXCEPT !.name = n]
       IN waiter' =
            IF o = 0 THEN [w EXCEPT !.status = "rejected", !.value = "not registered"]
            ELSE IF heap[o].state = "ready"
            THEN [w EXCEPT !.status = "resolved", !.value = heap[o].module]
            ELSE IF heap[o].state = "error"
            THEN [w EXCEPT !.status = "rejected", !.value = "error"]
            ELSE [w EXCEPT !.status = "pending", !.handler = TRUE,
                           !.deadline = now + t]
  /\ UNCHANGED listening
  /\ RegOnly
  /\ UNCHANGED events
  /\ UNCHANGED <<now, dependencies, heap, loadingPromises, timeouts, chain,
                 nChains, received, invoked, clears>>

\* waitForDependency's timer fires first.
WaitTimesOut ==
  /\ waiter.status = "pending" /\ now >= waiter.deadline
  /\ waiter' = [waiter EXCEPT !.status = "rejected", !.value = "wait timeout",
                              !.deadline = 0]
  /\ UNCHANGED listening
  /\ RegOnly
  /\ UNCHANGED events
  /\ UNCHANGED <<regCalls, now, dependencies, heap, loadingPromises, timeouts, chain,
                 nChains, received, invoked, clears>>

\* clearTimeout of the timer the timeouts map holds for a name.
ClearTimer(chs, id) ==
  IF id = 0 THEN chs ELSE [chs EXCEPT ![id].timer = FALSE, ![id].deadline = 0]

\* clearDependency(name)
clearDependency ==
  /\ regCalls < MaxCalls /\ regCalls' = regCalls + 1
  /\ \E n \in DepNames :
       LET chain1 == ClearTimer(chain, timeouts[n])
           deps1 == [dependencies EXCEPT ![n] = 0]
       IN /\ chain' = chain1
          /\ dependencies' = deps1
          /\ heap' = Collect(heap, deps1, chain1)
          /\ timeouts' = [timeouts EXCEPT ![n] = 0]
          /\ loadingPromises' = [loadingPromises EXCEPT ![n] = 0]
  /\ clears' = clears + 1
  /\ UNCHANGED listening
  /\ RegOnly
  /\ UNCHANGED events
  /\ UNCHANGED <<now, nChains, received, invoked, waiter>>

RECURSIVE ClearTimers(_, _)
ClearTimers(chs, names) ==
  IF names = {} THEN chs
  ELSE LET n == CHOOSE x \in names : TRUE
       IN ClearTimers(ClearTimer(chs, timeouts[n]), names \ {n})

\* clearAll(): every timer of the timeouts map, the maps and the handlers.
clearAll ==
  /\ regCalls < MaxCalls /\ regCalls' = regCalls + 1
  /\ LET chain1 == ClearTimers(chain, DepNames)
         deps1 == [n \in DepNames |-> 0]
     IN /\ chain' = chain1
        /\ dependencies' = deps1
        /\ heap' = Collect(heap, deps1, chain1)
  /\ timeouts' = [n \in DepNames |-> 0]
  /\ loadingPromises' = [n \in DepNames |-> 0]
  /\ waiter' = [waiter EXCEPT !.handler = FALSE]
  /\ clears' = clears + 1
  /\ listening' = HandlersCleared(listening)
  /\ RegOnly
  /\ UNCHANGED events
  /\ UNCHANGED <<now, nChains, received, invoked>>

\* Time passes, unless a timer is due.
TimerDue ==
  \/ \E id \in Chains : chain[id].timer /\ chain[id].deadline <= now
  \/ \E id \in Chains : chain[id].phase = "retrywait" /\ chain[id].retryAt <= now
  \/ waiter.status = "pending" /\ waiter.deadline <= now

Tick ==
  /\ now < MaxTime /\ ~TimerDue
  /\ now' = now + 1
  /\ RegOnly
  /\ UNCHANGED regVars

RegNext ==
  \/ registerDependency \/ loadDependencyGated \/ loadDependency
  \/ \E id \in Chains : \/ LoaderResolves(id) \/ LoaderRejects(id)
                        \/ RetryFires(id) \/ DeadlineFires(id)
  \/ waitForDependency \/ WaitTimesOut
  \/ clearDependency \/ clearAll
  \/ Tick

\* ---------------------------------------------------------------------
\* DataPrismHttpClient and its ProxyService.  The network is the
\* environment: a HEAD probe, a direct fetch and a proxy fetch each settle in
\* a later step, with success or failure (an abort by the client's timeout
\* is one of the failures).
\* ---------------------------------------------------------------------

\* Bound: how many calls one behaviour makes on the client and the proxy.
MaxNetCalls == 3

\* ProxyService's numbers.
HealthPenalty == 10
DefaultHealth == 50
CleanupThreshold == 100
\* The calls in progress at one time.
Reqs == 1..2
NetUrls == {[host |-> "h", path |-> "/a", query |-> ""],
            [host |-> "h", path |-> "/a", query |-> "v=1"],
            [host |-> "h", path |-> "/b", query |-> ""]}
Methods == {"GET", "HEAD"}

\* getCorsKey: hostname + pathname, without the query.
getCorsKey(url) == <<url.host, url.path>>
CorsKeys == {getCorsKey(u) : u \in NetUrls}

\* getCacheKey: method, url and headers; the model's calls have no headers.
getCacheKey(url, method) == <<method, url>>
CacheKeys == Methods \X NetUrls
NotCached == -1

EndpointIds == 1..(2 + MaxNetCalls)
NoEndpoint == [endpoint |-> "none", priority |-> 0, healthScore |-> 0]

\* initializeProxyEndpoints' defaults, and the configurations the proxy
\* service is constructed with.
DefaultEndpoints ==
  << [endpoint |-> "cors-anywhere", priority |-> 1, healthScore |-> DefaultHealth],
     [endpoint |-> "allorigins", priority |-> 2, healthScore |-> DefaultHealth] >>
ProxyConfigs ==
  {[cacheDuration |-> 1,
    endpoints |-> << [endpoint |-> "pB", priority |-> 2, healthScore |-> 5],
                     [endpoint |-> "pA", priority |-> 1, healthScore |-> 10] >>]}
\* A configuration without endpoints.
DefaultProxyConfig == [cacheDuration |-> 1, endpoints |-> <<>>]
\* Endpoints a caller adds and endpoint URLs a caller removes.
AddedEndpoints == [endpoint : {"pB"}, priority : {1}, healthScore : {0, 20}]
RemovedUrls == {"pA", "pB"}

\* Error messages, as sequences of characters.  Those a failed request
\* rejects with: the environment's choice.
MsgNetwork ==
  <<"N", "e", "t", "w", "o", "r", "k", " ", "e", "r", "r", "o", "r">>
MsgUnauthorized ==
  <<"U", "n", "a", "u", "t", "h", "o", "r", "i", "z", "e", "d">>
MsgCors ==
  <<"b", "l", "o", "c", "k", "e", "d", " ", "b", "y", " ", "C", "O", "R",
    "S", " ", "p", "o", "l", "i", "c", "y">>
MsgNotFound ==
  <<"4", "0", "4", " ", "N", "o", "t", " ", "F", "o", "u", "n", "d">>
MsgUnavailable ==
  <<"5", "0", "3", " ", "S", "e", "r", "v", "i", "c", "e", " ", "U", "n",
    "a", "v", "a", "i", "l", "a", "b", "l", "e">>
Messages == {MsgNetwork, MsgUnauthorized, MsgCors, MsgNotFound, MsgUnavailable}

\* The message of the error ProxyService.fetch throws without an endpoint.
NoProxyMessage ==
  <<"N", "o", " ", "a", "v", "a", "i", "l", "a", "b", "l", "e", " ", "p",
    "r", "o", "x", "y", " ", "e", "n", "d", "p", "o", "i", "n", "t", "s",
    " ", "f", "o", "r", " ", "C", "O", "R", "S", "-", "r", "e", "s", "t",
    "r", "i", "c", "t", "e", "d", " ", "r", "e", "s", "o", "u", "r", "c",
    "e">>

\* The prefix of the error ProxyService.fetch throws when its request failed.
ProxyFailedPrefix ==
  <<"P", "r", "o", "x", "y", " ", "s", "e", "r", "v", "i", "c", "e", " ",
    "f", "a", "i", "l", "e", "d", ":", " ">>
ProxyFailedMessage(message) == ProxyFailedPrefix \o message

\* String.prototype.toLowerCase, on the letters the messages have.
LowerCase(c) ==
  IF c = "C" THEN "c"
  ELSE IF c = "F" THEN "f"
  ELSE IF c = "N" THEN "n"
  ELSE IF c = "O" THEN "o"
  ELSE IF c = "P" THEN "p"
  ELSE IF c = "R" THEN "r"
  ELSE IF c = "S" THEN "s"
  ELSE IF c = "U" THEN "u"
  ELSE c
toLowerCase(str) == [i \in 1..Len(str) |-> LowerCase(str[i])]

\* String.prototype.includes
includes(str, part) ==
  \E i \in 1..(Len(str) - Len(part) + 1) : SubSeq(str, i, i + Len(part) - 1) = part

\* isRetryableError's list.
TokNetwork ==
  <<"n", "e", "t", "w", "o", "r", "k">>
TokTimeout ==
  <<"t", "i", "m", "e", "o", "u", "t">>
TokConnection ==
  <<"c", "o", "n", "n", "e", "c", "t", "i", "o", "n">>
TokTemporary ==
  <<"t", "e", "m", "p", "o", "r", "a", "r", "y">>
TokUnavailable ==
  <<"s", "e", "r", "v", "i", "c", "e", " ", "u", "n", "a", "v", "a", "i",
    "l", "a", "b", "l", "e">>
TokTooMany ==
  <<"t", "o", "o", " ", "m", "a", "n", "y", " ", "r", "e", "q", "u", "e",
    "s", "t", "s">>
retryableErrors ==
  {TokNetwork, TokTimeout, TokConnection, TokTemporary,
   TokUnavailable, TokTooMany}

\* A policy that retries after any error.
AnyErrorRetryable(message) == TRUE

\* isRetryableError(error), for an Error with this message.
isRetryableError(message) ==
  \E errorType \in retryableErrors : includes(toLowerCase(message), errorType)

\* The retries a caller passes to fetchWithRetry.
RetryBudgets == 0..2
\* The slot of a caller that makes its calls one after the other.
SerialReqs == {1}

\* A call: for fetchWithRetry, budget is the retries it was called with,
\* retries what is left of them, attempts the fetchWithCorsHandling calls it
\* has made and err the message of the error the last one threw; tried
\* lists the endpoints one ProxyService.fetch has sent its request to.
IdleReq == [op |-> "idle", pc |-> "idle", url |-> [host |-> "h", path |-> "/a", query |-> ""],
            method |-> "GET", proxy |-> 0, sentHealth |-> 0, res |-> "none",
            budget |-> 0, retries |-> 0, attempts |-> 0, err |-> <<>>,
            tried |-> <<>>]

\* sortProxyEndpoints' comparator is negative: a goes before b.
Before(a, b) ==
  IF a.healthScore # b.healthScore THEN a.healthScore > b.healthScore
  ELSE a.priority < b.priority

RECURSIVE InsertSorted(_, _, _)
InsertSorted(objs, list, id) ==
  IF list = <<>> THEN <<id>>
  ELSE IF Before(objs[id], objs[Head(list)]) THEN <<id>> \o list
  ELSE <<Head(list)>> \o InsertSorted(objs, Tail(list), id)

RECURSIVE SortInto(_, _, _)
SortInto(objs, sorted, rest) ==
  IF rest = <<>> THEN sorted
  ELSE SortInto(objs, InsertSorted(objs, sorted, Head(rest)), Tail(rest))

\* sortProxyEndpoints: by health score, highest first, then by priority,
\* lowest first; Array.prototype.sort is stable.
sortProxyEndpoints(objs, list) == SortInto(objs, <<>>, list)

\* initializeProxyEndpoints
initializeProxyEndpoints(config) ==
  IF config.endpoints = <<>> THEN DefaultEndpoints ELSE config.endpoints

\* A new call takes the first slot that has no call in progress.
ReqFree(r) ==
  /\ req[r].pc \in {"idle", "done"}
  /\ \A q \in Reqs : req[q].pc \in {"idle", "done"} => r <= q

\* A call that has returned or thrown: its kind and its result.
ReqDone(rq, result) ==
  [IdleReq EXCEPT !.op = rq.op, !.pc = "done", !.res = result,
                  !.budget = rq.budget, !.attempts = rq.attempts]

\* A call whose request has failed with an error of this message:
\* fetchWithRetry sleeps and tries again if it has retries left and the
\* error is retryable; any other call, and fetchWithRetry otherwise, throws
\* (the message fetchWithRetry throws is kept in err).
ReqFails(rq, result, message) ==
  IF rq.op = "retry" /\ rq.retries > 0 /\ isRetryableError(message)
  THEN [rq EXCEPT !.pc = "sleeping", !.retries = @ - 1, !.err = message,
                  !.proxy = 0, !.sentHealth = 0, !.tried = <<>>]
  ELSE [ReqDone(rq, result) EXCEPT !.err = IF rq.op = "retry" THEN message ELSE <<>>]

\* isCacheExpired
isCacheExpired(expiration, t) == t > expiration

\* selectProxyEndpoint's filter: not excluded and health above 0.
Available(objs, list, exclude) ==
  SelectSeq(list, LAMBDA id : id \notin exclude /\ objs[id].healthScore > 0)

RECURSIVE Best(_, _, _)
Best(objs, best, rest) ==
  IF rest = <<>> THEN best
  ELSE Best(objs,
            IF objs[Head(rest)].healthScore * objs[Head(rest)].priority
                 > objs[best].healthScore * objs[best].priority
            THEN Head(rest) ELSE best,
            Tail(rest))

\* selectProxyEndpoint(url, exclude): the available endpoint of the highest
\* healthScore * priority, the first of the list among equals; 0 for null.
selectProxyEndpoint(objs, list, exclude) ==
  LET available == Available(objs, list, exclude)
  IN IF available = <<>> THEN 0 ELSE Best(objs, Head(available), Tail(available))

\* The health score less the penalty, without the floor at 0.
DegradeUnclamped(healthScore) == healthScore - HealthPenalty

\* The health score after a failure.
Degrade(healthScore) ==
  IF healthScore - HealthPenalty > 0 THEN healthScore - HealthPenalty ELSE 0

\* ProxyService.fetch up to its await: an entry of the cache that has not
\* expired is the response; otherwise the request goes to the selected
\* endpoint, and without one the call throws.
ProxyFetch(rq, entries, objs, list, t) ==
  LET key == getCacheKey(rq.url, rq.method)
      proxy == selectProxyEndpoint(objs, list, {})
  IN IF entries[key] # NotCached /\ ~isCacheExpired(entries[key], t)
     THEN ReqDone(rq, "cached")
     ELSE IF proxy = 0 THEN ReqFails(rq, "NO_PROXY", NoProxyMessage)
     ELSE [rq EXCEPT !.pc = "proxying", !.proxy = proxy,
                     !.sentHealth = objs[proxy].healthScore,
                     !.tried = Append(@, proxy)]

\* ProxyService.fetch deletes the expired entry it finds.
DropExpired(entries, key, t) ==
  IF entries[key] # NotCached /\ isCacheExpired(entries[key], t)
  THEN [entries EXCEPT ![key] = NotCached] ELSE entries

\* fetchWithCorsHandling once the verdict is known: a direct fetch, or the
\* proxy.
AfterVerdict(rq, verdict, entries, objs, list, t) ==
  IF verdict = "direct" THEN [rq EXCEPT !.pc = "direct"]
  ELSE ProxyFetch(rq, entries, objs, list, t)

CacheAfterVerdict(rq, verdict, entries, t) ==
  IF verdict = "direct" THEN entries
  ELSE DropExpired(entries, getCacheKey(rq.url, rq.method), t)

\* testCorsSupport(url): a cached verdict is returned, otherwise a HEAD
\* request is sent.
testCorsSupport(r) ==
  /\ ReqFree(r) /\ netCalls < MaxNetCalls /\ netCalls' = netCalls + 1
  /\ \E url \in NetUrls :
       LET rq == [IdleReq EXCEPT !.op = "test", !.url = url, !.method = "HEAD"]
           key == getCorsKey(url)
       IN IF corsCache[key] # "none"
          THEN /\ req' = [req EXCEPT ![r] = ReqDone(rq, corsCache[key])]
               /\ UNCHANGED heads
          ELSE /\ req' = [req EXCEPT ![r] = [rq EXCEPT !.pc = "probing"]]
               /\ heads' = [heads EXCEPT ![key] = @ + 1]
  /\ NetOnly
  /\ UNCHANGED <<now, corsCache, proxyObj, nEndpoints, proxyEndpoints,
                 cacheDuration, cache>>

\* fetchWithCorsHandling up to its first await that is not settled: a
\* cached verdict leads to the fetch, otherwise a HEAD request is sent.
BeginFetch(r, rq) ==
  LET key == getCorsKey(rq.url)
  IN IF corsCache[key] # "none"
     THEN /\ req' = [req EXCEPT ![r] =
                       AfterVerdict(rq, corsCache[key], cache, proxyObj,
                                    proxyEndpoints, now)]
          /\ cache' = CacheAfterVerdict(rq, corsCache[key], cache, now)
          /\ UNCHANGED heads
     ELSE /\ req' = [req EXCEPT ![r] = [rq EXCEPT !.pc = "probing"]]
          /\ heads' = [heads EXCEPT ![key] = @ + 1]
          /\ UNCHANGED cache

\* fetchWithCorsHandling(url, options): testCorsSupport, then the fetch.
fetchWithCorsHandling(r) ==
  /\ ReqFree(r) /\ netCalls < MaxNetCalls /\ netCalls' = netCalls + 1
  /\ \E url \in NetUrls, method \in Methods :
       BeginFetch(r, [IdleReq EXCEPT !.op = "fetch", !.url = url, !.method = method])
  /\ NetOnly
  /\ UNCHANGED <<now, corsCache, proxyObj, nEndpoints, proxyEndpoints,
                 cacheDuration>>

\* fetchWithRetry(url, options, retries) up to the await of its first
\* fetchWithCorsHandling.
fetchWithRetry(r) ==
  /\ ReqFree(r) /\ netCalls < MaxNetCalls /\ netCalls' = netCalls + 1
  /\ \E url \in NetUrls, method \in Methods, retries \in RetryBudgets :
       BeginFetch(r, [IdleReq EXCEPT !.op = "retry", !.url = url, !.method = method,
                                     !.budget = retries, !.retries = retries,
                                     !.attempts = 1])
  /\ NetOnly
  /\ UNCHANGED <<now, corsCache, proxyObj, nEndpoints, proxyEndpoints,
                 cacheDuration>>

\* fetchWithRetry's sleep ends: it calls itself with one retry less, which
\* calls fetchWithCorsHandling again.
RetrySleepEnds(r) ==
  /\ req[r].pc = "sleeping"
  /\ BeginFetch(r, [req[r] EXCEPT !.attempts = @ + 1])
  /\ NetOnly
  /\ UNCHANGED <<now, corsCache, netCalls, proxyObj, nEndpoints, proxyEndpoints,
                 cacheDuration>>

\* The HEAD request settles: a response means direct access, any failure
\* means the proxy; the verdict is stored under the key.
ProbeSettles(r) ==
  /\ req[r].pc = "probing"
  /\ \E verdict \in {"direct", "proxy"} :
       /\ corsCache' = [corsCache EXCEPT ![getCorsKey(req[r].url)] = verdict]
       /\ IF req[r].op = "test"
          THEN /\ req' = [req EXCEPT ![r] = ReqDone(req[r], verdict)]
               /\ UNCHANGED cache
          ELSE /\ req' = [req EXCEPT ![r] =
                            AfterVerdict(req[r], verdict, cache, proxyObj,
                                         proxyEndpoints, now)]
               /\ cache' = CacheAfterVerdict(req[r], verdict, cache, now)
  /\ NetOnly
  /\ UNCHANGED <<now, heads, netCalls, proxyObj, nEndpoints, proxyEndpoints,
                 cacheDuration>>

\* The direct fetch of fetchWithCorsHandling settles.
DirectSettles(r) ==
  /\ req[r].pc = "direct"
  /\ \/ req' = [req EXCEPT ![r] = ReqDone(req[r], "ok")]
     \/ \E message \in Messages :
          req' = [req EXCEPT ![r] = ReqFails(req[r], "FETCH_FAILED", message)]
  /\ NetOnly
  /\ UNCHANGED <<now, corsCache, heads, netCalls, proxyObj, nEndpoints,
                 proxyEndpoints, cacheDuration, cache>>

\* ProxyService.fetch(url, options), as CloudStorageService.getFile calls it.
proxyFetch(r) ==
  /\ ReqFree(r) /\ netCalls < MaxNetCalls /\ netCalls' = netCalls + 1
  /\ \E url \in NetUrls, method \in Methods :
       LET rq == [IdleReq EXCEPT !.op = "proxy", !.url = url, !.method = method]
       IN /\ req' = [req EXCEPT ![r] =
                       ProxyFetch(rq, cache, proxyObj, proxyEndpoints, now)]
          /\ cache' = DropExpired(cache, getCacheKey(url, method), now)
  /\ NetOnly
  /\ UNCHANGED <<now, corsCache, heads, proxyObj, nEndpoints, proxyEndpoints,
                 cacheDuration>>

\* The proxy answers with an ok response: it is cached unless the method is
\* HEAD, and returned.
ProxyResponds(r) ==
  /\ req[r].pc = "proxying"
  /\ req' = [req EXCEPT ![r] =
               IF req[r].method # "HEAD" THEN [req[r] EXCEPT !.pc = "caching"]
               ELSE ReqDone(req[r], "ok")]
  /\ NetOnly
  /\ UNCHANGED <<now, corsCache, heads, netCalls, proxyObj, nEndpoints,
                 proxyEndpoints, cacheDuration, cache>>

\* The proxy request fails, or its response is not ok: the endpoint's health
\* score goes down; if another endpoint is available, fetch starts over,
\* otherwise the call throws PROXY_FAILED.
ProxyFails(r) ==
  /\ req[r].pc = "proxying"
  /\ LET proxy == req[r].proxy
         objs == [proxyObj EXCEPT ![proxy].healthScore = Degrade(@)]
         nextProxy == selectProxyEndpoint(objs, proxyEndpoints, {proxy})
     IN /\ proxyObj' = objs
        /\ IF nextProxy # 0 /\ nextProxy # proxy
           THEN /\ req' = [req EXCEPT ![r] =
                             ProxyFetch(req[r], cache, objs, proxyEndpoints, now)]
                /\ cache' = DropExpired(cache, getCacheKey(req[r].url, req[r].method), now)
           ELSE /\ \E message \in Messages :
                     req' = [req EXCEPT ![r] =
                               ReqFails(req[r], "PROXY_FAILED",
                                        ProxyFailedMessage(message))]
                /\ UNCHANGED cache
  /\ NetOnly
  /\ UNCHANGED <<now, corsCache, heads, netCalls, nEndpoints, proxyEndpoints,
                 cacheDuration>>

\* cleanupExpiredCache
cleanupExpiredCache(entries, t) ==
  [k \in CacheKeys |-> IF entries[k] # NotCached /\ t > entries[k]
                       THEN NotCached ELSE entries[k]]

\* cacheResponse: the body is read and stored with its expiration; a failure
\* to read it is only logged.  The response is returned either way.
cacheResponse(r) ==
  /\ req[r].pc = "caching"
  /\ \E stored \in BOOLEAN :
       LET key == getCacheKey(req[r].url, req[r].method)
           entries == [cache EXCEPT ![key] = now + cacheDuration]
       IN cache' = IF ~stored THEN cache
                   ELSE IF Cardinality({k \in CacheKeys : entries[k] # NotCached})
                             > CleanupThreshold
                   THEN cleanupExpiredCache(entries, now)
                   ELSE entries
  /\ req' = [req EXCEPT ![r] = ReqDone(req[r], "ok")]
  /\ NetOnly
  /\ UNCHANGED <<now, corsCache, heads, netCalls, proxyObj, nEndpoints,
                 proxyEndpoints, cacheDuration>>

\* addProxyEndpoint(endpoint): push and sort.
addProxyEndpoint ==
  /\ netCalls < MaxNetCalls /\ netCalls' = netCalls + 1
  /\ \E endpoint \in AddedEndpoints :
       LET id == nEndpoints + 1
           objs == [proxyObj EXCEPT ![id] = endpoint]
       IN /\ proxyObj' = objs
          /\ proxyEndpoints' = sortProxyEndpoints(objs, Append(proxyEndpoints, id))
  /\ nEndpoints' = nEndpoints + 1
  /\ NetOnly
  /\ UNCHANGED <<now, corsCache, heads, req, cacheDuration, cache>>

\* removeProxyEndpoint(endpointUrl)
removeProxyEndpoint ==
  /\ netCalls < MaxNetCalls /\ netCalls' = netCalls + 1
  /\ \E endpointUrl \in RemovedUrls :
       proxyEndpoints' =
         SelectSeq(proxyEndpoints, LAMBDA id : proxyObj[id].endpoint # endpointUrl)
  /\ NetOnly
  /\ UNCHANGED <<now, corsCache, heads, req, proxyObj, nEndpoints,
                 cacheDuration, cache>>

\* clearCorsCache()
clearCorsCache ==
  /\ netCalls < MaxNetCalls /\ netCalls' = netCalls + 1
  /\ corsCache' = [k \in CorsKeys |-> "none"]
  /\ heads' = [k \in CorsKeys |-> 0]
  /\ NetOnly
  /\ UNCHANGED <<now, req, proxyObj, nEndpoints, proxyEndpoints,
                 cacheDuration, cache>>

\* ProxyService.clearCache()
clearCache ==
  /\ netCalls < MaxNetCalls /\ netCalls' = netCalls + 1
  /\ cache' = [k \in CacheKeys |-> NotCached]
  /\ NetOnly
  /\ UNCHANGED <<now, corsCache, heads, req, proxyObj, nEndpoints,
                 proxyEndpoints, cacheDuration>>

\* Time passes; it matters to the client and the proxy only while an entry of
\* the cache has yet to expire.
NetTick ==
  /\ now < MaxTime
  /\ \E k \in CacheKeys : cache[k] # NotCached /\ ~isCacheExpired(cache[k], now)
  /\ now' = now + 1
  /\ NetOnly
  /\ UNCHANGED netVars

\* The client's calls, with the proxy behind fetchWithCorsHandling.
HttpNext ==
  \/ \E r \in Reqs : \/ testCorsSupport(r) \/ fetchWithCorsHandling(r)
                     \/ ProbeSettles(r) \/ DirectSettles(r)
                     \/ ProxyResponds(r) \/ ProxyFails(r) \/ cacheResponse(r)
  \/ clearCorsCache
  \/ NetTick

\* The proxy service's calls.
\* The client's calls to fetchWithRetry and the steps that settle them.
RetryNext ==
  \/ \E r \in SerialReqs : \/ fetchWithRetry(r) \/ RetrySleepEnds(r)
                     \/ ProbeSettles(r) \/ DirectSettles(r)
                     \/ ProxyResponds(r) \/ ProxyFails(r) \/ cacheResponse(r)
  \/ NetTick

\* The proxy service's fetch calls and the steps that settle them.
DefaultsNext ==
  \/ \E r \in SerialReqs : \/ proxyFetch(r) \/ ProxyResponds(r) \/ ProxyFails(r)
                     \/ cacheResponse(r)
  \/ NetTick

ProxyNext ==
  \/ \E r \in Reqs : \/ proxyFetch(r) \/ ProxyResponds(r) \/ ProxyFails(r)
                     \/ cacheResponse(r)
  \/ addProxyEndpoint \/ removeProxyEndpoint
  \/ clearCache
  \/ NetTick

\* ---------------------------------------------------------------------
\* CacheManager: a Map of entries with expiration, last access and
\* estimated size, a tracked byte total, and eviction inside set.  Every
\* method is synchronous: one action each.
\* ---------------------------------------------------------------------

\* Bound: how many calls one behaviour makes on the manager.
MaxCacheCalls == 4

\* The CacheConfig the manager is constructed with: bytes, seconds, entries.
CmMaxSize == 4
CmMaxAge == 1
CmMaxEntries == 2

\* estimateSize's numbers: bytes per UTF-16 character, and for a primitive.
BytesPerChar == 2
PrimitiveSize == 100

\* Keys, the empty string among them, and values: strings of a length.
CmKeys == {"", "k1", "k2"}
CmValues == [kind : {"string"}, length : {1, 3}]
CustomTtls == {0, 2}

NoValue == [kind |-> "none", length |-> 0]
NoEntry == [data |-> NoValue, expiration |-> 0, lastAccessed |-> 0, size |-> 0]
\* A call: what was called on which key, at what time, and for a lookup
\* whether it returned the data of an entry and that entry's expiration.
NoCmCall == [op |-> "none", key |-> "", data |-> NoValue, hit |-> FALSE,
             at |-> 0, expiration |-> 0]

\* estimateSize(data)
estimateSize(data) ==
  IF data.kind = "string" THEN data.length * BytesPerChar ELSE PrimitiveSize

\* The manager's Map and byte total, as the methods pass them on; hung tells
\* that a loop of evictIfNeeded never ends.
CmState(entries, order, size, hung) ==
  [entries |-> entries, order |-> order, size |-> size, hung |-> hung]

CmNow == CmState(cmEntries, cmOrder, currentSize, FALSE)

\* delete(key)
CmDelete(st, key) ==
  IF st.entries[key] = NoEntry THEN st
  ELSE [st EXCEPT !.entries[key] = NoEntry,
                  !.order = SelectSeq(st.order, LAMBDA k : k # key),
                  !.size = @ - st.entries[key].size]

\* evictLRU's scan: the first entry in iteration order whose lastAccessed is
\* below every earlier candidate's, starting from Date.now() and the key ''.
RECURSIVE OldestKey(_, _, _, _)
OldestKey(entries, rest, oldestKey, oldestTime) ==
  IF rest = <<>> THEN oldestKey
  ELSE IF entries[Head(rest)].lastAccessed < oldestTime
       THEN OldestKey(entries, Tail(rest), Head(rest), entries[Head(rest)].lastAccessed)
       ELSE OldestKey(entries, Tail(rest), oldestKey, oldestTime)

\* evictLRU(): the key found is deleted unless it is the empty string.
evictLRU(st, t) ==
  LET oldestKey == OldestKey(st.entries, st.order, "", t)
  IN IF oldestKey # "" THEN CmDelete(st, oldestKey) ELSE st

\* evictIfNeeded's first loop: while the tracked total plus the new size is
\* above maxSize and the Map is not empty.  A pass that evicts nothing
\* leaves the condition true for ever.
RECURSIVE EvictForSize(_, _, _)
EvictForSize(st, newEntrySize, t) ==
  IF st.size + newEntrySize > CmMaxSize /\ Len(st.order) > 0
  THEN IF evictLRU(st, t) = st THEN [st EXCEPT !.hung = TRUE]
       ELSE EvictForSize(evictLRU(st, t), newEntrySize, t)
  ELSE st

\* evictIfNeeded's second loop: while the Map has maxEntries entries or more.
RECURSIVE EvictForCount(_, _)
EvictForCount(st, t) ==
  IF st.hung THEN st
  ELSE IF Len(st.order) >= CmMaxEntries
  THEN IF evictLRU(st, t) = st THEN [st EXCEPT !.hung = TRUE]
       ELSE EvictForCount(evictLRU(st, t), t)
  ELSE st

\* evictIfNeeded(newEntrySize)
evictIfNeeded(st, newEntrySize, t) == EvictForCount(EvictForSize(st, newEntrySize, t), t)

\* Map.set: a new key goes last, a present key keeps its place.
MapSet(st, key, entry) ==
  [st EXCEPT !.entries[key] = entry,
             !.order = IF st.entries[key] = NoEntry THEN Append(st.order, key)
                       ELSE st.order]

\* set(key, data, customTtl) on a state: the size of a present entry is taken
\* off the total, evictIfNeeded runs, the entry is stored and its size added.
CmSet(st, key, data, customTtl, t) ==
  LET size == estimateSize(data)
      ttl == IF customTtl # 0 THEN customTtl ELSE CmMaxAge
      st1 == IF st.entries[key] # NoEntry
             THEN [st EXCEPT !.size = @ - st.entries[key].size] ELSE st
      st2 == evictIfNeeded(st1, size, t)
      entry == [data |-> data, expiration |-> t + ttl, lastAccessed |-> t,
                size |-> size]
  IN IF st2.hung THEN st2
     ELSE [MapSet(st2, key, entry) EXCEPT !.size = @ + size]

\* get(key) on a state: an entry past its expiration is deleted, any other
\* entry gets a new lastAccessed.
CmGet(st, key, t) ==
  IF st.entries[key] = NoEntry THEN st
  ELSE IF t > st.entries[key].expiration THEN CmDelete(st, key)
  ELSE [st EXCEPT !.entries[key].lastAccessed = t]

\* Whether get(key) returns the entry's data.
CmHit(st, key, t) == st.entries[key] # NoEntry /\ ~(t > st.entries[key].expiration)

\* cleanup(): every entry past its expiration is deleted.
RECURSIVE CmCleanup(_, _, _)
CmCleanup(st, keys, t) ==
  IF keys = <<>> THEN st
  ELSE CmCleanup(IF t > st.entries[Head(keys)].expiration
                 THEN CmDelete(st, Head(keys)) ELSE st,
                 Tail(keys), t)

\* The manager's state after a call.
CmBecomes(st) ==
  /\ cmEntries' = st.entries
  /\ cmOrder' = st.order
  /\ currentSize' = st.size
  /\ cmHung' = st.hung

CmCall == ~cmHung /\ cmCalls < MaxCacheCalls /\ cmCalls' = cmCalls + 1

\* set(key, data, customTtl)
cmSet ==
  /\ CmCall
  /\ \E key \in CmKeys, data \in CmValues, customTtl \in CustomTtls :
       /\ CmBecomes(CmSet(CmNow, key, data, customTtl, now))
       /\ cmLast' = [NoCmCall EXCEPT !.op = "set", !.key = key, !.data = data,
                                     !.at = now]
  /\ CacheOnly
  /\ UNCHANGED now

\* get(key) and has(key), which is get(key) !== null
cmGet ==
  /\ CmCall
  /\ \E key \in CmKeys, op \in {"get", "has"} :
       /\ CmBecomes(CmGet(CmNow, key, now))
       /\ cmLast' = [NoCmCall EXCEPT
                       !.op = op, !.key = key, !.at = now,
                       !.hit = CmHit(CmNow, key, now),
                       !.data = IF CmHit(CmNow, key, now)
                                THEN cmEntries[key].data ELSE NoValue,
                       !.expiration = cmEntries[key].expiration]
  /\ CacheOnly
  /\ UNCHANGED now

\* delete(key)
cmDelete ==
  /\ CmCall
  /\ \E key \in CmKeys :
       /\ CmBecomes(CmDelete(CmNow, key))
       /\ cmLast' = [NoCmCall EXCEPT !.op = "delete", !.key = key, !.at = now,
                                     !.hit = cmEntries[key] # NoEntry]
  /\ CacheOnly
  /\ UNCHANGED now

\* clear()
cmClear ==
  /\ CmCall
  /\ CmBecomes(CmState([k \in CmKeys |-> NoEntry], <<>>, 0, FALSE))
  /\ cmLast' = [NoCmCall EXCEPT !.op = "clear", !.at = now]
  /\ CacheOnly
  /\ UNCHANGED now

\* cleanup(), called or run by the cleanup timer
cmCleanup ==
  /\ CmCall
  /\ CmBecomes(CmCleanup(CmNow, cmOrder, now))
  /\ cmLast' = [NoCmCall EXCEPT !.op = "cleanup", !.at = now]
  /\ CacheOnly
  /\ UNCHANGED now

\* Time passes.
CmTick ==
  /\ ~cmHung /\ now < MaxTime
  /\ now' = now + 1
  /\ CacheOnly
  /\ UNCHANGED cacheVars

CacheNext ==
  \/ cmSet \/ cmGet \/ cmDelete \/ cmClear \/ cmCleanup
  \/ CmTick

(***************************************************************************)
(*                              File handles                               *)
(***************************************************************************)

\* Bound: calls made on file handles in one behaviour, getFile included.
MaxHandleCalls == 4

Handles == 1..2

\* A FileHandle is its Response: whether it has a body; whether the body's
\* stream is disturbed (something was read from it) and who holds its lock;
\* whether a caller holds the stream createReadStream returned; the read of
\* getContentAsText / getContentAsBuffer in progress; and the consumption
\* calls that succeeded on the handle, in order.
NoHandle == [exists |-> FALSE, hasBody |-> FALSE, disturbed |-> FALSE,
             locked |-> "none", streamOut |-> FALSE, reading |-> "none",
             succeeded |-> <<>>]

NewHandle(body) == [NoHandle EXCEPT !.exists = TRUE, !.hasBody = body]

\* Response.bodyUsed: the body is not null and its stream is disturbed.
bodyUsed(h) == h.hasBody /\ h.disturbed

\* The body is unusable: text(), arrayBuffer() and clone() reject.
Unusable(h) == h.hasBody /\ (h.disturbed \/ h.locked # "none")

FhCall == fhCalls < MaxHandleCalls /\ fhCalls' = fhCalls + 1

Succeeds(h, op) == [h EXCEPT !.succeeded = Append(@, op)]

\* CloudStorageService.getFile returns a new handle on a Response, whose body
\* is null for a response without content.
getFile ==
  /\ FhCall
  /\ \E h \in Handles, body \in BOOLEAN :
       /\ ~handles[h].exists
       /\ \A g \in Handles : g < h => handles[g].exists
       /\ handles' = [handles EXCEPT ![h] = NewHandle(body)]
  /\ FileOnly

\* getContentAsText / getContentAsBuffer up to the await: the bodyUsed test,
\* then text() / arrayBuffer(), which rejects on a locked body, resolves at
\* once on a null body, and otherwise locks the stream and starts to read it.
getContent(h) ==
  /\ FhCall
  /\ handles[h].exists
  /\ \E op \in {"text", "buffer"} :
       handles' = [handles EXCEPT ![h] =
         IF bodyUsed(@) \/ Unusable(@) THEN @
         ELSE IF ~@.hasBody THEN Succeeds(@, op)
         ELSE [@ EXCEPT !.reading = op, !.locked = "consume", !.disturbed = TRUE]]
  /\ FileOnly

\* The read of the body ends: the call returns the content, or the read failed.
ContentSettles(h) ==
  /\ handles[h].reading # "none"
  /\ \E ok \in BOOLEAN :
       handles' = [handles EXCEPT ![h] =
         IF ok THEN [Succeeds(@, @.reading) EXCEPT !.reading = "none"]
         ELSE [@ EXCEPT !.reading = "none"]]
  /\ UNCHANGED fhCalls
  /\ FileOnly

\* createReadStream: throws without a body or on a used body, and otherwise
\* returns response.body itself, which leaves the body as it is.
createReadStream(h) ==
  /\ FhCall
  /\ handles[h].exists
  /\ handles' = [handles EXCEPT ![h] =
       IF ~@.hasBody \/ bodyUsed(@) THEN @
       ELSE [Succeeds(@, "stream") EXCEPT !.streamOut = TRUE]]
  /\ FileOnly

\* The caller of createReadStream takes a reader on the stream it was given.
StreamLocked(h) ==
  /\ handles[h].streamOut /\ handles[h].locked = "none"
  /\ handles' = [handles EXCEPT ![h].locked = "caller"]
  /\ UNCHANGED fhCalls
  /\ FileOnly

\* The caller's reader reads from the stream.
StreamRead(h) ==
  /\ handles[h].locked = "caller" /\ ~handles[h].disturbed
  /\ handles' = [handles EXCEPT ![h].disturbed = TRUE]
  /\ UNCHANGED fhCalls
  /\ FileOnly

\* clone(): response.clone() throws on an unusable body; otherwise the body
\* is teed: both handles have a new stream, and a stream handed out before is
\* no longer the body of either.
clone(h) ==
  /\ FhCall
  /\ handles[h].exists
  /\ \E g \in Handles :
       /\ ~handles[g].exists
       /\ \A f \in Handles : f < g => handles[f].exists
       /\ handles' = IF Unusable(handles[h]) THEN handles
                     ELSE [handles EXCEPT ![g] = NewHandle(handles[h].hasBody),
                                          ![h].streamOut = FALSE]
  /\ FileOnly

FileNext ==
  \/ getFile
  \/ \E h \in Handles :
       \/ getContent(h) \/ ContentSettles(h) \/ createReadStream(h)
       \/ StreamLocked(h) \/ StreamRead(h) \/ clone(h)

(***************************************************************************)
(*                 CloudStorageService: the schema cache                   *)
(***************************************************************************)

\* Bound: calls made on the schema cache in one behaviour.
MaxSchemaCalls == 3

SchemaCalls == 1..2

\* A URL is its identity and its extension.
SchemaUrls == { [id |-> "a", ext |-> "csv"], [id |-> "b", ext |-> "arrow"] }

\* The content-type header of the HEAD response ("" when absent), and the
\* text read from the file: a header line, or text that is not JSON.
ContentTypes == {"text/csv", "application/json", "application/parquet", ""}
Texts == {"h1", "h2", "invalid"}

NoSchema == [format |-> "none", columns |-> "none"]
NoSchemaUrl == [id |-> "none", ext |-> "none"]

\* A getFileSchema call: where it is, the requests it sent, whether the cache
\* answered it, how many calls had ended when it began, and how it ended.
IdleSchemaCall == [op |-> "getFileSchema", pc |-> "idle", url |-> NoSchemaUrl,
                   format |-> "none", sent |-> 0, hit |-> FALSE, began |-> 0,
                   res |-> NoSchema, code |-> "none"]

\* detectFileFormat: by extension, 'parquet' when the extension is unknown.
detectFileFormat(url) ==
  CASE url.ext = "parquet" -> "parquet"
    [] url.ext = "csv" -> "csv"
    [] url.ext \in {"json", "jsonl"} -> "json"
    [] url.ext = "arrow" -> "arrow"
    [] OTHER -> "parquet"

\* The format getFileSchema reads the file as: by the content type when it
\* names one, by the extension otherwise.
SchemaFormat(contentType, url) ==
  CASE contentType = "application/parquet" -> "parquet"
    [] contentType = "text/csv" -> "csv"
    [] contentType = "application/json" -> "json"
    [] OTHER -> detectFileFormat(url)

\* The schema getCsvSchema / getJsonSchema build from the text they read.
SchemaOf(format, text) == [format |-> format, columns |-> text]
ParquetSchema == [format |-> "parquet", columns |-> "unknown"]

SchemaFree(c) == schemaCall[c].pc \in {"idle", "done"}

SchemaCallMade == schemaCalls < MaxSchemaCalls /\ schemaCalls' = schemaCalls + 1

\* A getFileSchema call ends: with a schema, or with SCHEMA_ERROR.
Returns(rec, schema) == [rec EXCEPT !.pc = "done", !.res = schema]
Throws(rec) == [rec EXCEPT !.pc = "done", !.code = "SCHEMA_ERROR"]

\* Call c goes on as rec; a call that ended is added to the log.
Continue(c, rec) ==
  /\ schemaCall' = [schemaCall EXCEPT ![c] = rec]
  /\ schemaLog' = IF rec.pc = "done" THEN Append(schemaLog, rec) ELSE schemaLog

\* getFileSchema up to its first await: the cached schema, or the HEAD
\* request through fetchWithCorsHandling.
getFileSchema(c) ==
  /\ SchemaCallMade
  /\ SchemaFree(c)
  /\ \E url \in SchemaUrls :
       LET rec == [IdleSchemaCall EXCEPT !.url = url, !.began = Len(schemaLog)] IN
       Continue(c, IF schemaCache[url] # NoSchema
                   THEN Returns([rec EXCEPT !.hit = TRUE], schemaCache[url])
                   ELSE [rec EXCEPT !.pc = "head", !.sent = 1])
  /\ UNCHANGED schemaCache
  /\ SchemaOnly

\* The HEAD request settles: it failed, or its content type and the URL give
\* the format, and get<Format>Schema calls getFile, which sends a request.
HeadSettles(c) ==
  /\ schemaCall[c].pc = "head"
  /\ \/ Continue(c, Throws(schemaCall[c]))
     \/ \E contentType \in ContentTypes :
          LET format == SchemaFormat(contentType, schemaCall[c].url) IN
          Continue(c, IF format \in {"parquet", "csv", "json"}
                      THEN [schemaCall[c] EXCEPT !.pc = "get", !.format = format,
                                                 !.sent = @ + 1]
                      ELSE Throws(schemaCall[c]))
  /\ UNCHANGED <<schemaCache, schemaCalls>>
  /\ SchemaOnly

\* getFile's request settles: it failed or was not ok; or the handle is
\* there, and getParquetSchema stores its placeholder, getCsvSchema and
\* getJsonSchema read the text.
GetSettles(c) ==
  /\ schemaCall[c].pc = "get"
  /\ \/ /\ Continue(c, Throws(schemaCall[c]))
        /\ UNCHANGED schemaCache
     \/ /\ schemaCall[c].format = "parquet"
        /\ schemaCache' = [schemaCache EXCEPT ![schemaCall[c].url] = ParquetSchema]
        /\ Continue(c, Returns(schemaCall[c], ParquetSchema))
     \/ /\ schemaCall[c].format # "parquet"
        /\ Continue(c, [schemaCall[c] EXCEPT !.pc = "text"])
        /\ UNCHANGED schemaCache
  /\ UNCHANGED schemaCalls
  /\ SchemaOnly

\* getContentAsText settles: it failed, or the text is not JSON for
\* getJsonSchema; or the schema is built, stored and returned.
TextSettles(c) ==
  /\ schemaCall[c].pc = "text"
  /\ \/ /\ Continue(c, Throws(schemaCall[c]))
        /\ UNCHANGED schemaCache
     \/ \E text \in Texts :
          LET schema == SchemaOf(schemaCall[c].format, text) IN
          IF schemaCall[c].format = "json" /\ text = "invalid"
          THEN /\ Continue(c, Throws(schemaCall[c]))
               /\ UNCHANGED schemaCache
          ELSE /\ schemaCache' = [schemaCache EXCEPT ![schemaCall[c].url] = schema]
               /\ Continue(c, Returns(schemaCall[c], schema))
  /\ UNCHANGED schemaCalls
  /\ SchemaOnly

\* clearSchemaCache()
clearSchemaCache ==
  /\ SchemaCallMade
  /\ schemaCache' = [u \in SchemaUrls |-> NoSchema]
  /\ schemaLog' = Append(schemaLog, [IdleSchemaCall EXCEPT !.op = "clearSchemaCache",
                                                          !.pc = "done"])
  /\ UNCHANGED schemaCall
  /\ SchemaOnly

SchemaNext ==
  \/ \E c \in SchemaCalls :
       \/ getFileSchema(c) \/ HeadSettles(c) \/ GetSettles(c) \/ TextSettles(c)
  \/ clearSchemaCache

(***************************************************************************)
(*                               AuthManager                               *)
(***************************************************************************)

\* Bound: calls made on the manager in one behaviour.
MaxAuthCalls == 3

Providers == {"google-cloud-storage", "azure-blob"}

\* CloudCredentials: the fields the manager reads, "" for an absent one.
Credentials == { [apiKey |-> "k1", oauth2Token |-> ""],
                 [apiKey |-> "", oauth2Token |-> "t1"],
                 [apiKey |-> "k2", oauth2Token |-> "t2"] }
NoCredentials == [apiKey |-> "undefined", oauth2Token |-> "undefined"]

NoTokenInfo == [token |-> "", expiresAt |-> 0, refreshToken |-> ""]

AuthMethods == {"undefined", "api-key", "oauth2"}

\* fetched: the call contacted a token endpoint.
NoAuthCall == [op |-> "none", provider |-> "none", credentials |-> NoCredentials,
               method |-> "none", result |-> "none", fetched |-> FALSE]

\* A store in which every provider gets the credentials.
CredentialsSetAll(creds, provider, c) == [q \in Providers |-> c]

\* this.credentials.set(provider, { ...credentials })
CredentialsSet(creds, provider, c) ==
  [creds EXCEPT ![provider] = [apiKey |-> c.apiKey, oauth2Token |-> c.oauth2Token]]

\* A store that caches a token with a refresh token for the provider.
TokensSeeded(toks, provider) ==
  [toks EXCEPT ![provider] = [token |-> "seeded", expiresAt |-> 0, refreshToken |-> "r"]]

\* this.tokens.delete(provider)
TokensDelete(toks, provider) == [toks EXCEPT ![provider] = NoTokenInfo]

AuthCall == authCalls < MaxAuthCalls /\ authCalls' = authCalls + 1

setCredentials ==
  /\ AuthCall
  /\ \E provider \in Providers, c \in Credentials :
       /\ credentials' = CredentialsSet(credentials, provider, c)
       /\ tokens' = TokensDelete(tokens, provider)
       /\ authLast' = [NoAuthCall EXCEPT !.op = "setCredentials",
                                         !.provider = provider, !.credentials = c]
  /\ AuthOnly

\* clearCredentials(provider?): one provider's entries, or all of them.
clearCredentials ==
  /\ AuthCall
  /\ \E provider \in Providers \cup {"undefined"} :
       /\ IF provider = "undefined"
          THEN /\ credentials' = [q \in Providers |-> NoCredentials]
               /\ tokens' = [q \in Providers |-> NoTokenInfo]
          ELSE /\ credentials' = [credentials EXCEPT ![provider] = NoCredentials]
               /\ tokens' = TokensDelete(tokens, provider)
       /\ authLast' = [NoAuthCall EXCEPT !.op = "clearCredentials",
                                         !.provider = provider]
  /\ AuthOnly

\* getApiKeyHeaders for these providers: a bearer header when there is a key.
ApiKeyHeaders(c) == IF c.apiKey # "" THEN c.apiKey ELSE "{}"

\* config.tokenRefreshThreshold, in units of 1000 ms.
tokenRefreshThreshold == 300

\* What the token endpoint answers to a refresh.
RefreshOutcomes == {"ok", "failed"}

\* refreshOAuth2Token's this.tokens.set: the new access token, its expiry,
\* and the refresh token, kept when the endpoint sends none.
refreshOAuth2Token(toks, provider, t) ==
  [toks EXCEPT ![provider] = [token |-> "fresh", expiresAt |-> t + 1,
                              refreshToken |-> toks[provider].refreshToken]]

\* `let token = credentials.oauth2Token` and the final `if (!token)`.
ConfiguredToken(c) == IF c.oauth2Token # "" THEN c.oauth2Token ELSE "NO_OAUTH2_TOKEN"

\* getOAuth2Headers up to its await: the cached token while it is valid, a
\* refresh when the cached entry has a refresh token, the configured token
\* otherwise; NO_OAUTH2_TOKEN without a token.
OAuth2Headers(c, tokenInfo, t) ==
  IF tokenInfo # NoTokenInfo /\ t < tokenInfo.expiresAt THEN tokenInfo.token
  ELSE IF tokenInfo # NoTokenInfo /\ tokenInfo.refreshToken # "" THEN "refresh"
  ELSE ConfiguredToken(c)

\* getAuthHeaders(provider, config): no headers without credentials; the
\* method defaults to 'api-key'.  A refresh getOAuth2Headers starts either
\* stores and returns the new token, or fails and leaves the configured one.
getAuthHeaders ==
  /\ AuthCall
  /\ \E provider \in Providers, method \in AuthMethods, outcome \in RefreshOutcomes :
       LET c == credentials[provider]
           authMethod == IF method = "undefined" THEN "api-key" ELSE method
           headers == IF c = NoCredentials THEN "{}"
                      ELSE IF authMethod = "api-key" THEN ApiKeyHeaders(c)
                      ELSE OAuth2Headers(c, tokens[provider], now)
           refresh == headers = "refresh"
       IN /\ authLast' = [NoAuthCall EXCEPT
               !.op = "getAuthHeaders", !.provider = provider, !.credentials = c,
               !.method = authMethod, !.fetched = refresh,
               !.result = IF ~refresh THEN headers
                          ELSE IF outcome = "ok" THEN "fresh" ELSE ConfiguredToken(c)]
          /\ tokens' = IF refresh /\ outcome = "ok"
                       THEN refreshOAuth2Token(tokens, provider, now)
                       ELSE tokens
  /\ UNCHANGED credentials
  /\ AuthOnly

\* refreshTokenIfNeeded(provider): false without a cached token; a refresh
\* when the cached token is within the threshold of its expiry and has a
\* refresh token: true when it succeeds, and the entry is deleted and false
\* returned when it fails.
refreshTokenIfNeeded ==
  /\ AuthCall
  /\ \E provider \in Providers, outcome \in RefreshOutcomes :
       LET tokenInfo == tokens[provider]
           refresh == /\ tokenInfo # NoTokenInfo
                      /\ now + tokenRefreshThreshold >= tokenInfo.expiresAt
                      /\ tokenInfo.refreshToken # ""
       IN /\ authLast' = [NoAuthCall EXCEPT
               !.op = "refreshTokenIfNeeded", !.provider = provider,
               !.fetched = refresh,
               !.result = IF refresh /\ outcome = "ok" THEN "true" ELSE "false"]
          /\ tokens' = IF ~refresh THEN tokens
                       ELSE IF outcome = "ok"
                       THEN refreshOAuth2Token(tokens, provider, now)
                       ELSE TokensDelete(tokens, provider)
  /\ UNCHANGED credentials
  /\ AuthOnly

AuthNext ==
  \/ setCredentials \/ clearCredentials \/ getAuthHeaders \/ refreshTokenIfNeeded

(***************************************************************************)
(*                 Engine facade (DataPrismEngine)                         *)
(***************************************************************************)

\* Bound: calls made on the facade in one behaviour.
MaxEngineCalls == 4

\* The initialize calls that get past the guard; call i creates manager i
\* and, when it registers the dependency, record i and load i.
EngineInits == 1..(MaxEngineCalls \div 2)

\* initialize's maxRetries option for the 'duckdb' dependency.
EngineMaxRetries == 3

\* The fields initializeCloudStorage assigns before its first await.
SyncServices ==
  {"cacheManager", "schemaCache", "httpCache", "queryCache", "authManager",
   "performanceOptimizer", "httpClient", "cloudStorage"}

\* The fields with a public getter; duckdbCloud is read by duckdbCloudService.
ServiceFields == SyncServices \cup {"duckdbCloud"}

NoManager == [conn |-> FALSE]
NoRecord == [state |-> "free", retryCount |-> 0]
\* A load of 'duckdb': obj is the record its running attempt captured, mgr
\* the manager whose initialize() the loader called, early whether that
\* manager was initialized when it was called.
NoLoad == [phase |-> "free", obj |-> 0, mgr |-> 0, early |-> FALSE,
           timer |-> FALSE, promise |-> "pending"]
\* An initialize call: cloud is where initializeCloudStorage stands in its
\* waitForDependency('duckdb'): "subscribed" with its handler registered,
\* "timer" once the handler was dropped, "settled" when it has ended.
NoInit == [pc |-> "free", load |-> 0, cloud |-> "none"]
NoClose == [pc |-> "free", mgr |-> 0]
NoEngineCall == [op |-> "none", res |-> "none", ready |-> FALSE]

\* isDependencyReady('duckdb')
isDependencyReady(rec, objs) == rec # 0 /\ objs[rec].state = "ready"

\* DataPrismEngine.isReady()
isReady(init, rec, objs) == init /\ isDependencyReady(rec, objs)

\* setState('duckdb', state): on the record the map holds, if any.
EngSetState(objs, rec, state) ==
  IF rec = 0 THEN objs ELSE [objs EXCEPT ![rec].state = state]

\* An event reaching the handlers waitForDependency subscribed.  After a
\* 'ready' the wait returns the module and initializeCloudStorage calls
\* this.duckdb.getDuckDB(), which DuckDBManager does not have: the call
\* throws, as a failed wait does, duckdbCloud is not assigned, and
\* initialize's catch settles the promise.
EngDeliver(calls, type) ==
  [i \in EngineInits |->
     IF calls[i].cloud = "subscribed" /\ type \in {"ready", "error", "timeout"}
     THEN [calls[i] EXCEPT !.cloud = "settled"]
     ELSE calls[i]]

\* The facade holds a manager whose connection is open.
HasConnection(mgrs, m) == IF m = 0 THEN FALSE ELSE mgrs[m].conn

\* resolve / reject of a load's promise: the first settlement counts.
EngSettle(ld, how) ==
  IF ld.promise = "pending" THEN [ld EXCEPT !.promise = how] ELSE ld

\* clearAll without dependencies.clear().
MapRecordKept(rec) == rec

\* clearAll: the map of records is emptied.
MapRecordAfterClear(rec) == 0

\* close() after the manager has closed: the fields are nulled, initialized
\* is reset and the registry cleared (the timer the timeouts map holds is
\* cancelled, the maps emptied and the handlers dropped).
CloseCleanup ==
  /\ services' = {}
  /\ initialized' = FALSE
  /\ depLoads' = IF depTimeout = 0 THEN depLoads
                 ELSE [depLoads EXCEPT ![depTimeout].timer = FALSE]
  /\ depTimeout' = 0
  /\ depRecord' = MapRecordAfterClear(depRecord)
  /\ arrowRecord' = FALSE
  /\ depPromise' = 0
  /\ initCall' = [i \in EngineInits |->
                    IF initCall[i].cloud = "subscribed"
                    THEN [initCall[i] EXCEPT !.cloud = "timer"]
                    ELSE initCall[i]]
  /\ closedSince' = TRUE
  /\ engLast' = [NoEngineCall EXCEPT !.op = "close", !.res = "resolved"]

\* initialize() on an initialized facade returns at once.
initializeAgain ==
  /\ engCalls < MaxEngineCalls /\ engCalls' = engCalls + 1
  /\ initialized
  /\ closedSince' = FALSE
  /\ engLast' = [NoEngineCall EXCEPT !.op = "initialize", !.res = "resolved",
                                     !.ready = isReady(initialized, depRecord, depObj)]
  /\ UNCHANGED <<initialized, duckdb, managers, services, arrowModule,
                 arrowRecord, depRecord, depObj, depLoads, depPromise,
                 depTimeout, initCall, nInits, closeCall>>
  /\ EngineOnly

\* initialize() up to its await of Promise.allSettled: a new manager, the
\* 'duckdb' load (or the one in flight), the columnar runtime's load unless
\* its module is cached, and initializeCloudStorage up to its wait for
\* 'duckdb'.
initialize ==
  /\ engCalls < MaxEngineCalls /\ engCalls' = engCalls + 1
  /\ ~initialized
  /\ nInits < Cardinality(EngineInits)
  /\ LET i == nInits + 1
         gated == depPromise # 0
         rec == IF depRecord = 0 THEN i ELSE depRecord
         objs1 == IF depRecord = 0
                  THEN [depObj EXCEPT ![i] = [NoRecord EXCEPT !.state = "initializing"]]
                  ELSE depObj
         objs2 == IF gated THEN depObj ELSE [objs1 EXCEPT ![rec].state = "loading"]
         state == objs2[IF gated THEN depRecord ELSE rec].state
     IN /\ duckdb' = i
        /\ depObj' = objs2
        /\ depRecord' = IF gated THEN depRecord ELSE rec
        /\ depLoads' = IF gated THEN depLoads
                       ELSE [depLoads EXCEPT ![i] =
                               [NoLoad EXCEPT !.phase = "loading", !.obj = rec,
                                              !.mgr = i, !.timer = TRUE]]
        /\ depPromise' = IF gated THEN depPromise ELSE i
        /\ depTimeout' = IF gated THEN depTimeout ELSE i
        /\ initCall' = [initCall EXCEPT ![i] =
                          [pc |-> "awaiting",
                           load |-> IF gated THEN depPromise ELSE i,
                           cloud |-> IF state \in {"ready", "error"}
                                     THEN "settled" ELSE "subscribed"]]
        /\ nInits' = i
  /\ arrowRecord' = (arrowRecord \/ ~arrowModule)
  /\ services' = SyncServices
  /\ closedSince' = FALSE
  /\ UNCHANGED <<initialized, managers, arrowModule, closeCall, engLast>>
  /\ EngineOnly

\* The loader's promise resolves: manager.initialize() has opened its
\* connection, unless it found the manager initialized; the timer is cleared, the record the map holds is set to
\* ready, a 'ready' event is emitted and the load's promise resolves.
EngLoaderResolves(l) ==
  /\ depLoads[l].phase = "loading"
  /\ managers' = IF depLoads[l].early THEN managers
                 ELSE [managers EXCEPT ![depLoads[l].mgr].conn = TRUE]
  /\ depLoads' = [depLoads EXCEPT ![l] =
                    EngSettle([@ EXCEPT !.phase = "ended", !.obj = 0,
                                        !.timer = FALSE], "resolved")]
  /\ depTimeout' = 0
  /\ depObj' = EngSetState(depObj, depRecord, "ready")
  /\ initCall' = EngDeliver(initCall, "ready")
  /\ UNCHANGED <<initialized, duckdb, services, arrowModule, arrowRecord,
                 depRecord, depPromise, nInits, closeCall, engLast, engCalls,
                 closedSince>>
  /\ EngineOnly

\* The loader's promise rejects: a retry is scheduled while the captured
\* record's retryCount is below maxRetries, else the record the map holds
\* goes to error, an 'error' event is emitted and the load's promise rejects.
EngLoaderRejects(l) ==
  /\ depLoads[l].phase = "loading" /\ ~depLoads[l].early
  /\ LET ld == depLoads[l]
     IN IF depObj[ld.obj].retryCount < EngineMaxRetries
        THEN /\ depObj' = [depObj EXCEPT ![ld.obj].retryCount = @ + 1]
             /\ depLoads' = [depLoads EXCEPT ![l] =
                               [ld EXCEPT !.phase = "retrywait", !.timer = FALSE]]
             /\ initCall' = EngDeliver(initCall, "retry")
        ELSE /\ depObj' = EngSetState(depObj, depRecord, "error")
             /\ depLoads' = [depLoads EXCEPT ![l] =
                               EngSettle([ld EXCEPT !.phase = "ended", !.obj = 0,
                                                    !.timer = FALSE], "rejected")]
             /\ initCall' = EngDeliver(initCall, "error")
  /\ depTimeout' = 0
  /\ UNCHANGED <<initialized, duckdb, managers, services, arrowModule,
                 arrowRecord, depRecord, depPromise, nInits, closeCall, engLast,
                 engCalls, closedSince>>
  /\ EngineOnly

\* The retry timer fires: executeLoad runs again on the record the map holds
\* now and the loader calls initialize() on the manager the facade holds now;
\* without a record the executor throws and the load's promise rejects.
EngRetryFires(l) ==
  /\ depLoads[l].phase = "retrywait"
  /\ LET ld == depLoads[l]
     IN IF depRecord = 0
        THEN /\ depLoads' = [depLoads EXCEPT ![l] =
                               EngSettle([ld EXCEPT !.phase = "ended", !.obj = 0],
                                         "rejected")]
             /\ UNCHANGED <<depObj, depTimeout>>
        ELSE /\ depLoads' = [depLoads EXCEPT ![l] =
                               [ld EXCEPT !.phase = "loading", !.obj = depRecord,
                                          !.mgr = duckdb,
                                          !.early = HasConnection(managers, duckdb),
                                          !.timer = TRUE]]
             /\ depObj' = [depObj EXCEPT ![depRecord].state = "loading"]
             /\ depTimeout' = l
  /\ UNCHANGED <<initialized, duckdb, managers, services, arrowModule,
                 arrowRecord, depRecord, depPromise, initCall, nInits, closeCall,
                 engLast, engCalls, closedSince>>
  /\ EngineOnly

\* The load's deadline timer fires before its loader has settled: the record
\* the map holds is set to timeout, a 'timeout' event is emitted and the
\* load's promise rejects.  The loader stays in flight.
EngDeadlineFires(l) ==
  /\ depLoads[l].timer
  /\ depObj' = EngSetState(depObj, depRecord, "timeout")
  /\ depLoads' = [depLoads EXCEPT ![l] =
                    EngSettle([@ EXCEPT !.timer = FALSE], "rejected")]
  /\ initCall' = EngDeliver(initCall, "timeout")
  /\ UNCHANGED <<initialized, duckdb, managers, services, arrowModule,
                 arrowRecord, depRecord, depPromise, depTimeout, nInits,
                 closeCall, engLast, engCalls, closedSince>>
  /\ EngineOnly

\* The timer of initializeCloudStorage's waitForDependency fires.
CloudWaitTimesOut(i) ==
  /\ initCall[i].cloud \in {"subscribed", "timer"}
  /\ initCall' = [initCall EXCEPT ![i].cloud = "settled"]
  /\ UNCHANGED <<initialized, duckdb, managers, services, arrowModule,
                 arrowRecord, depRecord, depObj, depLoads, depPromise,
                 depTimeout, nInits, closeCall, engLast, engCalls, closedSince>>
  /\ EngineOnly

\* Promise.allSettled has every promise settled: initialize sets initialized
\* and returns.  The columnar runtime's loader has cached its module if its
\* load resolved.
InitializeReturns(i) ==
  /\ initCall[i].pc = "awaiting"
  /\ initCall[i].cloud = "settled"
  /\ depLoads[initCall[i].load].promise # "pending"
  /\ initialized' = TRUE
  /\ initCall' = [initCall EXCEPT ![i].pc = "returned"]
  /\ \E loaded \in BOOLEAN : arrowModule' = (arrowModule \/ loaded)
  /\ engLast' = [NoEngineCall EXCEPT !.op = "initialize", !.res = "resolved",
                                     !.ready = isReady(TRUE, depRecord, depObj)]
  /\ UNCHANGED <<duckdb, managers, services, arrowRecord, depRecord, depObj,
                 depLoads, depPromise, depTimeout, nInits, closeCall, engCalls,
                 closedSince>>
  /\ EngineOnly

\* query(sql) up to its await: rejected unless initialized, then handed to
\* the manager, which throws without a connection.
query ==
  /\ engCalls < MaxEngineCalls /\ engCalls' = engCalls + 1
  /\ engLast' = [op |-> "query",
                 res |-> IF ~initialized THEN "Engine not initialized"
                         ELSE IF duckdb = 0 THEN "call initialize() first"
                         ELSE IF ~HasConnection(managers, duckdb) THEN "DuckDB not initialized"
                         ELSE "delegated",
                 ready |-> isDependencyReady(depRecord, depObj)]
  /\ UNCHANGED <<initialized, duckdb, managers, services, arrowModule,
                 arrowRecord, depRecord, depObj, depLoads, depPromise,
                 depTimeout, initCall, nInits, closeCall, closedSince>>
  /\ EngineOnly

\* close() with no manager, or one without a connection: nothing is awaited
\* but settled promises, and close runs to its end.
closeAtOnce ==
  /\ engCalls < MaxEngineCalls /\ engCalls' = engCalls + 1
  /\ closeCall.pc = "free"
  /\ ~HasConnection(managers, duckdb)
  /\ CloseCleanup
  /\ UNCHANGED <<duckdb, managers, arrowModule, depObj, nInits, closeCall>>
  /\ EngineOnly

\* close() up to its await of the manager's close().
close ==
  /\ engCalls < MaxEngineCalls /\ engCalls' = engCalls + 1
  /\ closeCall.pc = "free"
  /\ HasConnection(managers, duckdb)
  /\ closeCall' = [pc |-> "closing", mgr |-> duckdb]
  /\ UNCHANGED <<initialized, duckdb, managers, services, arrowModule,
                 arrowRecord, depRecord, depObj, depLoads, depPromise,
                 depTimeout, initCall, nInits, engLast, closedSince>>
  /\ EngineOnly

\* The manager's close() resolves: its connection is gone, and close() runs
\* to its end.
CloseResolves ==
  /\ closeCall.pc = "closing"
  /\ managers' = [managers EXCEPT ![closeCall.mgr].conn = FALSE]
  /\ closeCall' = NoClose
  /\ CloseCleanup
  /\ UNCHANGED <<duckdb, arrowModule, depObj, nInits, engCalls>>
  /\ EngineOnly

\* The manager's close() rejects, and so does close(): nothing is cleaned up.
CloseRejects ==
  /\ closeCall.pc = "closing"
  /\ closeCall' = NoClose
  /\ engLast' = [NoEngineCall EXCEPT !.op = "close", !.res = "rejected"]
  /\ UNCHANGED <<initialized, duckdb, managers, services, arrowModule,
                 arrowRecord, depRecord, depObj, depLoads, depPromise,
                 depTimeout, initCall, nInits, engCalls, closedSince>>
  /\ EngineOnly

EngineNext ==
  \/ initializeAgain \/ initialize
  \/ \E l \in EngineInits : \/ EngLoaderResolves(l) \/ EngLoaderRejects(l)
                            \/ EngRetryFires(l) \/ EngDeadlineFires(l)
  \/ \E i \in EngineInits : CloudWaitTimesOut(i) \/ InitializeReturns(i)
  \/ query \/ closeAtOnce \/ close \/ CloseResolves \/ CloseRejects

\* The state after construction: an integration without tables, an empty
\* registry, a client whose proxy service got one of the configurations, empty
\* caches, no file handle and no credentials.
InitWith(configs) ==
  /\ registeredTables = [n \in Names |-> NoConfig]
  /\ sqlTables = [n \in Names |-> NoTable]
  /\ virtualFiles = [f \in Names \X VirtualExts |-> NoFile]
  /\ proxiedAccess = FALSE
  /\ fallbackStrategies = DefaultFallback
  /\ call = [c \in Calls |-> IdleCall]
  /\ opsStarted = 0
  /\ now = 0
  /\ dependencies = [n \in DepNames |-> 0]
  /\ heap = [o \in Objs |-> FreeObj]
  /\ loadingPromises = [n \in DepNames |-> 0]
  /\ timeouts = [n \in DepNames |-> 0]
  /\ chain = [id \in Chains |-> FreeChain]
  /\ nChains = 0
  /\ received = [k \in LoadCalls |-> NoCall]
  /\ regCalls = 0
  /\ invoked = {}
  /\ clears = 0
  /\ waiter = FreeWaiter
  /\ events = <<>>
  /\ listening = TRUE
  /\ corsCache = [k \in CorsKeys |-> "none"]
  /\ heads = [k \in CorsKeys |-> 0]
  /\ req = [r \in Reqs |-> IdleReq]
  /\ netCalls = 0
  /\ \E config \in configs :
       LET eps == initializeProxyEndpoints(config)
           objs == [id \in EndpointIds |->
                      IF id <= Len(eps) THEN eps[id] ELSE NoEndpoint]
       IN /\ proxyObj = objs
          /\ nEndpoints = Len(eps)
          /\ proxyEndpoints = sortProxyEndpoints(objs, [i \in 1..Len(eps) |-> i])
          /\ cacheDuration = config.cacheDuration
  /\ cache = [k \in CacheKeys |-> NotCached]
  /\ cmEntries = [k \in CmKeys |-> NoEntry]
  /\ cmOrder = <<>>
  /\ currentSize = 0
  /\ cmHung = FALSE
  /\ cmLast = NoCmCall
  /\ cmCalls = 0
  /\ handles = [h \in Handles |-> NoHandle]
  /\ fhCalls = 0
  /\ schemaCache = [u \in SchemaUrls |-> NoSchema]
  /\ schemaCall = [c \in SchemaCalls |-> IdleSchemaCall]
  /\ schemaCalls = 0
  /\ schemaLog = <<>>
  /\ credentials = [p \in Providers |-> NoCredentials]
  /\ tokens = [p \in Providers |-> NoTokenInfo]
  /\ authLast = NoAuthCall
  /\ authCalls = 0
  /\ initialized = FALSE
  /\ duckdb = 0
  /\ managers = [m \in EngineInits |-> NoManager]
  /\ services = {}
  /\ arrowModule = FALSE
  /\ arrowRecord = FALSE
  /\ depRecord = 0
  /\ depObj = [o \in EngineInits |-> NoRecord]
  /\ depLoads = [l \in EngineInits |-> NoLoad]
  /\ depPromise = 0
  /\ depTimeout = 0
  /\ initCall = [i \in EngineInits |-> NoInit]
  /\ nInits = 0
  /\ closeCall = NoClose
  /\ engLast = NoEngineCall
  /\ engCalls = 0
  /\ closedSince = FALSE

Init == InitWith(ProxyConfigs)

\* The state after construction when the proxy service was given no
\* endpoints and uses its defaults.
InitDefaults == InitWith({DefaultProxyConfig})

SpecOrchestrator == Init /\ [][OrchNext]_vars
SpecOptions == Init /\ [][OptionsNext]_vars
SpecRegistry == Init /\ [][RegNext]_vars
SpecHttp == Init /\ [][HttpNext]_vars
SpecRetry == Init /\ [][RetryNext]_vars
SpecProxy == Init /\ [][ProxyNext]_vars
SpecProxyDefaults == InitDefaults /\ [][DefaultsNext]_vars
SpecCache == Init /\ [][CacheNext]_vars
SpecFileHandle == Init /\ [][FileNext]_vars
SpecSchema == Init /\ [][SchemaNext]_vars
SpecAuth == Init /\ [][AuthNext]_vars
SpecEngine == Init /\ [][EngineNext]_vars

(***************************************************************************)
(*                 Claims on the remote-table orchestrator                 *)
(***************************************************************************)

Registered(n) == registeredTables[n] # NoConfig
InEngine(n) == sqlTables[n] # NoTable
InLockstep(n) == Registered(n) <=> InEngine(n)

\* C1: whenever no registerCloudTable, unregisterCloudTable or queryCloudTable
\* call is in progress, a name is in the registry map if and only if the SQL
\* engine has a table of that name.
C1_RegistryIffEngine == Quiescent => \A n \in Names : InLockstep(n)

\* C2: when the only calls made so far are two registerCloudTable calls on the
\* same name whose steps interleaved, and both have completed, the registry has
\* an entry for the name if and only if the SQL engine has the table.
C2_ConcurrentRegisterConsistent ==
  ( /\ opsStarted = 2
    /\ \A c \in Calls : /\ call[c].pc = "done" /\ call[c].op = "register"
                        /\ ~call[c].solo
    /\ call["c1"].name = call["c2"].name )
  => InLockstep(call["c1"].name)

\* C3: a registerCloudTable call for a name that is already registered, made
\* while no other call is in progress and in which no collaborator fails and
\* the URL's format is supported, succeeds and leaves one registry entry and
\* one SQL table for the name.
C3_ReRegisterSucceeds ==
  \A c \in Calls :
    ( /\ call[c].pc = "done" /\ call[c].op = "register"
      /\ call[c].pre /\ call[c].solo
      /\ call[c].err \notin {"env", "format"} )
    => ( /\ call[c].res = "ok"
         /\ Quiescent => (Registered(call[c].name) /\ InEngine(call[c].name)) )
\* ---- Claims about the dependency registry ----

Started(id) == chain[id].phase # "free"
Running(id) == chain[id].phase = "loading"
Called(k) == received[k] # NoCall

StateEdges ==
  {<<"initializing", "loading">>, <<"loading", "ready">>, <<"loading", "error">>,
   <<"loading", "timeout">>, <<"loading", "loading">>}

\* C5: the record a load's running attempt holds changes state only along
\* initializing -> loading, loading -> ready | error | timeout and
\* loading -> loading, until the record is forgotten; ready, timeout and
\* error are never left.
C5_StateEdgesOnly ==
  [][\A id \in Chains :
       (Running(id) /\ heap'[chain[id].obj].state # "free")
       => \/ heap'[chain[id].obj].state = heap[chain[id].obj].state
          \/ <<heap[chain[id].obj].state, heap'[chain[id].obj].state>> \in StateEdges]_vars

\* C6: a registered record is ready exactly if its module is not null, and a
\* resolved load promise of the record the map holds means ready with a module.
C6_ReadyIffModule ==
  /\ \A n \in DepNames :
       dependencies[n] # 0 =>
         (heap[dependencies[n]].state = "ready" <=> heap[dependencies[n]].module # "null")
  /\ \A id \in Chains :
       ( /\ chain[id].promise = "resolved" /\ loadingPromises[chain[id].name] = id
         /\ dependencies[chain[id].name] # 0 )
       => /\ heap[dependencies[chain[id].name]].state = "ready"
          /\ heap[dependencies[chain[id].name]].module # "null"

\* C7: a load whose loader rejected with a CORS, 404 / not found or missing
\* capability error has ended with its promise rejected: the loader is not
\* invoked again and no retry is pending.
C7_FatalErrorsNotRetried ==
  \A id \in Chains :
    chain[id].fatal => (chain[id].phase = "ended" /\ chain[id].promise = "rejected")

\* C8: once more than timeoutMs has passed since the loadDependency call and
\* the load is still going with no module produced, the record's state is
\* timeout and the load's promise is rejected with DEPENDENCY_TIMEOUT.
C8_AbsoluteDeadline ==
  \A id \in Chains :
    ( /\ chain[id].phase \in {"loading", "retrywait"} /\ ~chain[id].produced
      /\ loadingPromises[chain[id].name] = id
      /\ dependencies[chain[id].name] # 0
      /\ now > chain[id].started + heap[dependencies[chain[id].name]].timeoutMs )
    => /\ heap[dependencies[chain[id].name]].state = "timeout"
       /\ chain[id].promise = "rejected"
       /\ chain[id].value = "DEPENDENCY_TIMEOUT"


\* ---- Claims about the HTTP client and the proxy service ----

\* C9: between two clearCorsCache calls at most one HEAD probe is issued per
\* (host, path) key, whatever the query strings of the URLs and however the
\* testCorsSupport and fetchWithCorsHandling calls overlap.
C9_OneProbePerKey == \A k \in CorsKeys : heads[k] <= 1

Listed(id) == \E i \in 1..Len(proxyEndpoints) : proxyEndpoints[i] = id

AllHealthZero == \A id \in 1..nEndpoints : Listed(id) => proxyObj[id].healthScore = 0

\* C11: with every proxy endpoint at health 0, a fetchWithCorsHandling call
\* that needed the proxy and found no endpoint to send to has thrown
\* PROXY_FAILED ("NO_PROXY" is the CloudStorageError thrown without a code).
C11_NoEndpointIsProxyFailed ==
  \A r \in Reqs :
    ( /\ req[r].pc = "done" /\ req[r].op = "fetch" /\ AllHealthZero
      /\ req[r].res \in {"NO_PROXY", "PROXY_FAILED"} )
    => req[r].res = "PROXY_FAILED"

\* ---- Claims about the cache manager ----

\* C12: a lookup returns an entry's data only at a time before the entry's
\* expiration; a lookup that returns nothing leaves no entry under the key.
C12_NoLookupAtOrPastExpiration ==
  cmLast.op \in {"get", "has"} =>
    /\ cmLast.hit => cmLast.at < cmLast.expiration
    /\ ~cmLast.hit => cmEntries[cmLast.key] = NoEntry

RECURSIVE SumSizes(_, _)
SumSizes(entries, keys) ==
  IF keys = <<>> THEN 0 ELSE entries[Head(keys)].size + SumSizes(entries, Tail(keys))

\* C13: after a set that returned, the manager holds at most maxEntries
\* entries of at most maxSize bytes together, and a value whose estimated
\* size alone is above maxSize is not stored.
C13_CapsHoldAfterSet ==
  (cmLast.op = "set" /\ ~cmHung) =>
    /\ Len(cmOrder) <= CmMaxEntries
    /\ SumSizes(cmEntries, cmOrder) <= CmMaxSize
    /\ estimateSize(cmLast.data) > CmMaxSize => cmEntries[cmLast.key].data # cmLast.data


\* ---- Claims about the query fallback chain ----

\* The query calls that have returned or thrown after their first query failed.
FellBack(c) ==
  call[c].pc = "done" /\ call[c].op = "query" /\ Len(call[c].tried) > 0

\* C14: a query whose first attempt failed has run the configured strategies
\* in their order and none after the first that succeeded: the strategies it
\* ran are a prefix of the configured ones; it returned rows exactly when its
\* last strategy produced them, and it threw only after all of them had run,
\* with the code QUERY_FAILED.
C14_FallbackInOrderThenQueryFailed ==
  \A c \in Calls :
    FellBack(c) =>
      /\ Len(call[c].tried) <= Len(call[c].fs)
      /\ call[c].tried = SubSeq(call[c].fs, 1, Len(call[c].tried))
      /\ call[c].res = "ok" => call[c].rows # NoTable
      /\ call[c].res = "fail" =>
           /\ call[c].tried = call[c].fs
           /\ call[c].code = "QUERY_FAILED"


\* ---- Claims about unregisterCloudTable ----

\* The step in which call c of unregisterCloudTable returns or throws.
UnregisterEnds(c) ==
  /\ call'[c].op = "unregister" /\ call'[c].pc = "done"
  /\ call'[c] # call[c]

\* C15: unregisterCloudTable never throws; a call on a registered name ends
\* with the name out of the registry, whatever connect(), DROP TABLE or close()
\* did; a call on an unregistered name issues no statement and leaves the
\* registry, the engine's tables and its files as they were.
C15_UnregisterAlwaysRemoves ==
  [][ \A c \in Calls :
        UnregisterEnds(c) =>
          /\ call'[c].res = "ok"
          /\ call'[c].pre => registeredTables'[call'[c].name] = NoConfig
          /\ ~call'[c].pre =>
               /\ ~call'[c].dropIssued
               /\ UNCHANGED <<registeredTables, sqlTables, virtualFiles>> ]_vars

\* An unregisterCloudTable call on a registered name, alone, whose DROP TABLE
\* was issued and failed: the table is still in the engine, the name is gone.
C15_Witness ==
  \E c \in Calls :
    /\ call[c].op = "unregister" /\ call[c].pc = "done"
    /\ call[c].pre /\ call[c].solo /\ call[c].dropIssued
    /\ sqlTables[call[c].name] # NoTable
    /\ registeredTables[call[c].name] = NoConfig


\* ---- Claims about registerCloudTable ----

\* Call r is the second registration of register; unregister; register on one
\* name, made one call at a time: three calls were made, the unregistration u
\* found the name registered and the registration r, after it, did not. (Had
\* r come before u it would have succeeded, for u to find the name.)
SecondRegistration(r, u) ==
  /\ opsStarted = 3 /\ Quiescent
  /\ call[u].op = "unregister" /\ call[u].pre /\ call[u].solo
  /\ call[r].op = "register" /\ ~call[r].pre /\ call[r].solo
  /\ call[r].name = call[u].name
  /\ call[r].res = "fail" \/ Registered(call[r].name)

\* C16: in register; unregister; register on one name, when no collaborator
\* fails in the second registration and its URL's format is supported, the
\* second registration succeeds and leaves the name registered with the table
\* of its URL in the engine, as a first registration does.
C16_RegisterUnregisterRegister ==
  \A r, u \in Calls :
    ( /\ SecondRegistration(r, u)
      /\ call[r].err \notin {"env", "format"} )
    => /\ call[r].res = "ok"
       /\ Registered(call[r].name)
       /\ sqlTables[call[r].name].src = registeredTables[call[r].name].url.id

\* ---- Claims about the choice of the registration path ----

\* The step in which registerCloudTable, call c, chooses its path.
Decides(c) ==
  /\ call'[c].op = "register" /\ call'[c].pc = "connect"
  /\ call[c].pc # "connect"

\* The handling the caller asked for: 'auto' when a probe was made.
RequestedHandling(rec) == IF rec.probe = "none" THEN rec.mode ELSE "auto"

\* C17: registerCloudTable takes the proxied path exactly when forced-proxy
\* mode is on, or 'proxy' was asked for, or 'auto' (also by default) was asked
\* for and the probe did not report direct access, a probe that threw
\* included; it takes the direct path in every other case.
C17_ProxyPathIff ==
  [][ \A c \in Calls :
        Decides(c) =>
          /\ call'[c].path \in {"proxied", "direct"}
          /\ call'[c].path = "proxied" <=>
               \/ proxiedAccess
               \/ RequestedHandling(call'[c]) = "proxy"
               \/ /\ RequestedHandling(call'[c]) = "auto"
                  /\ call'[c].probe # "direct" ]_vars

\* A registration on 'auto' whose probe threw, outside forced-proxy mode, on
\* the proxied path.
C17_Witness ==
  \E c \in Calls :
    /\ call[c].op = "register" /\ call[c].pc = "connect"
    /\ call[c].probe = "threw" /\ ~proxiedAccess
    /\ call[c].path = "proxied"


\* ---- Claims about the file handles ----

\* C18: on every file handle at most one call of getContentAsBuffer,
\* getContentAsText and createReadStream succeeds: after one has succeeded,
\* every later one fails.
C18_AtMostOneConsumption ==
  \A h \in Handles : Len(handles[h].succeeded) <= 1

\* ---- Claims about the schema cache ----

\* The calls that ended i-th and next are getFileSchema calls on one URL, the
\* second begun after the first ended; the first had to fetch its schema, and
\* both returned one.
Successive(i) ==
  LET first == schemaLog[i]
      second == schemaLog[i + 1]
  IN /\ first.op = "getFileSchema" /\ second.op = "getFileSchema"
     /\ first.url = second.url
     /\ second.began >= i
     /\ ~first.hit
     /\ first.res # NoSchema /\ second.res # NoSchema

\* C19: two successive getFileSchema calls on one URL return equal schemas,
\* the second one without a request, and the two together send one request.
C19_SecondSchemaFromCache ==
  \A i \in 1..(Len(schemaLog) - 1) :
    Successive(i) =>
      /\ schemaLog[i + 1].res = schemaLog[i].res
      /\ schemaLog[i + 1].sent = 0
      /\ schemaLog[i].sent + schemaLog[i + 1].sent = 1

\* ---- Claims about the credential store ----

\* C20: a setCredentials(p, c) call leaves no cached token for p and stores
\* credentials equal to c for p; the credentials and the cached tokens of the
\* other providers are what they were before the call.
C20_SetCredentialsFrame ==
  [][ (authCalls' # authCalls /\ authLast'.op = "setCredentials") =>
        LET p == authLast'.provider IN
        /\ tokens'[p] = NoTokenInfo
        /\ credentials'[p] = authLast'.credentials
        /\ \A q \in Providers \ {p} :
             /\ credentials'[q] = credentials[q]
             /\ tokens'[q] = tokens[q] ]_vars

\* setCredentials has replaced the credentials of one provider while another
\* provider has credentials of its own.
C20_Witness ==
  /\ authLast.op = "setCredentials"
  /\ authCalls >= 3
  /\ credentials[authLast.provider] = authLast.credentials
  /\ \E q \in Providers \ {authLast.provider} :
       /\ credentials[q] # NoCredentials
       /\ credentials[q] # authLast.credentials

(***************************************************************************)
(*                     Claims on the engine facade                         *)
(***************************************************************************)

\* C22: a query the facade does not reject as not initialized finds the
\* 'duckdb' dependency ready, and isReady() is true when initialize() has
\* resolved.
C22_QueryOnlyWhenReady ==
  /\ (engLast.op = "query" /\ engLast.res # "Engine not initialized")
       => engLast.ready
  /\ (engLast.op = "initialize" /\ engLast.res = "resolved") => engLast.ready

\* C23: after close() has resolved and until initialize() is called again,
\* isReady() is false, every service getter returns null and the registry
\* holds no record, whatever an initialize() still in progress does.
C23_ClosedStaysClosed ==
  closedSince =>
    /\ ~isReady(initialized, depRecord, depObj)
    /\ services \cap ServiceFields = {}
    /\ depRecord = 0 /\ ~arrowRecord

\* close() has resolved while an initialize() was in progress, and that
\* initialize() has since returned.
C23_Witness ==
  /\ closedSince /\ initialized
  /\ \E i \in EngineInits : initCall[i].pc = "returned"

(***************************************************************************)
(*         Claims on the registry's registration, retries and events       *)
(***************************************************************************)

\* C24: registerDependency on a name that has a record returns that record
\* unchanged (state, retry count, module and limits) and emits no event.
C24_RegisterIdempotent ==
  [][ \A n \in DepNames :
        (registerDependency /\ dependencies[n] # 0) =>
          /\ dependencies'[n] = dependencies[n]
          /\ heap'[dependencies'[n]] = heap[dependencies[n]]
          /\ events' = events ]_vars

\* C27: no record's retryCount exceeds its maxRetries, and a load that ended
\* in error after its loader rejected every time has invoked the loader
\* exactly maxRetries times and rejected with DEPENDENCY_LOAD_ERROR.
C27_InvokedMaxRetriesTimes ==
  /\ \A o \in Objs : heap[o].retryCount <= heap[o].maxRetries
  /\ \A id \in Chains :
       (chain[id].phase = "ended" /\ chain[id].limit # 0 /\ ~chain[id].produced) =>
         /\ chain[id].attempts = chain[id].limit
         /\ chain[id].promise = "rejected"

\* The state of the record the map holds for a name.
StateOf(deps, h, n) == IF deps[n] = 0 THEN "none" ELSE h[deps[n]].state

\* The lifecycle event a change of state calls for: 'loading' when a record
\* is created or enters loading (a registered record that starts loading was
\* announced when it was created), the new state when it becomes ready, error
\* or timeout, none when nothing changes or the record is removed.
EventFor(before, after) ==
  IF after = before \/ after = "none" THEN "none"
  ELSE IF after = "initializing" THEN "loading"
  ELSE IF after = "loading" THEN IF before = "initializing" THEN "none" ELSE "loading"
  ELSE after

\* C30: every step emits exactly the event its change of state calls for:
\* one event of the transition's type when the record changes state, and
\* none but a 'retry' when it does not.
C30_OneEventPerTransition ==
  [][ \A n \in DepNames :
        LET want == EventFor(StateOf(dependencies, heap, n),
                             StateOf(dependencies', heap', n))
            new == SubSeq(events', Len(events) + 1, Len(events'))
        IN IF want = "none" THEN new \in {<<>>, <<"retry">>}
           ELSE new = <<want>> ]_vars

\* ---- C25 ----
\* The message has one of the six tokens in it, whatever the case of its
\* letters.
MentionsRetryable(message) ==
  \E token \in {TokNetwork, TokTimeout, TokConnection, TokTemporary,
                TokUnavailable, TokTooMany} :
    \E at \in 0..Len(message) :
      \A j \in 1..Len(token) :
        /\ at + j <= Len(message)
        /\ LowerCase(message[at + j]) = token[j]

RetryFailed(rq) ==
  rq.op = "retry" /\ rq.pc = "done" /\ rq.res \notin {"ok", "cached"}

SeqRange(seq) == {seq[i] : i \in 1..Len(seq)}

\* The endpoints one call has not sent its request to and whose health is
\* above 0.
LeftToTry(rq) ==
  {id \in SeqRange(proxyEndpoints) :
     id \notin SeqRange(rq.tried) /\ proxyObj[id].healthScore > 0}

\* C28: within one ProxyService.fetch call each endpoint is attempted at
\* most once.  When the request to an endpoint fails, its health goes down
\* by exactly 10, not below 0, and the call goes on with an endpoint of
\* health > 0 that it has not tried yet (or answers from the cache); it
\* fails with PROXY_FAILED only when no such endpoint is left.
C28_EachEndpointOnce ==
  [][ \A r \in Reqs :
        ProxyFails(r) =>
          LET rq == req[r]
              before == proxyObj[rq.proxy].healthScore
          IN /\ proxyObj'[rq.proxy].healthScore =
                  (IF before >= 10 THEN before - 10 ELSE 0)
             /\ IF LeftToTry(rq) = {}
                THEN req'[r].pc = "done" /\ req'[r].res = "PROXY_FAILED"
                ELSE \/ req'[r].pc = "done" /\ req'[r].res = "cached"
                     \/ /\ req'[r].pc = "proxying"
                        /\ req'[r].proxy \in LeftToTry(rq) ]_vars

\* ---- C29 ----
\* The endpoints a request can be sent to.
Selectable == {id \in SeqRange(proxyEndpoints) : proxyObj[id].healthScore > 0}

\* A call has sent its first request, to this endpoint, and no health
\* score has changed since it chose.
FirstChoice(r, id) ==
  /\ req[r].pc = "proxying" /\ req[r].tried = <<id>>
  /\ req[r].sentHealth = proxyObj[id].healthScore

\* C29: among selectable endpoints a lower priority number is preferred:
\* with A (health 50, priority 1) and B (health 50, priority 2), and in any
\* state where the selectable endpoints have the same health, a request
\* tries the endpoint of the lowest priority number first.
C29_LowerPriorityNumberFirst ==
  \A r \in Reqs : \A id \in Selectable :
    ( /\ FirstChoice(r, id)
      /\ \A other \in Selectable :
           proxyObj[other].healthScore = proxyObj[id].healthScore )
    => \A other \in Selectable : proxyObj[id].priority <= proxyObj[other].priority

\* ---- C26 ----
\* The step in which the statement of registration c creates its table.
CreatesTable(c) ==
  /\ Created(c) /\ call[c].op = "register"
  /\ sqlTables'[call[c].name] # sqlTables[call[c].name]

\* C26: a table registered through the proxied path has opts.columns and
\* opts.where applied to the SELECT and WHERE of its CREATE TABLE AS
\* statement just as on the direct path: whichever path a registration
\* takes, the table it creates is the one the direct path's statement
\* creates for its URL and options.
C26_SameTableOnBothPaths ==
  [][ \A c \in Calls :
        CreatesTable(c) =>
          sqlTables'[call[c].name] =
            DirectStatement(call[c].url.id, call[c].options) ]_vars

\* ---- C31 ----
\* C31: the `error` strategy is terminal: once a query's fallback has
\* reached `error`, no strategy listed after it in the configured chain is
\* attempted, and the query throws.
C31_ErrorIsTerminal ==
  \A c \in Calls :
    (call[c].op = "query" /\ \E i \in 1..Len(call[c].tried) : call[c].tried[i] = "error") =>
      /\ call[c].tried[Len(call[c].tried)] = "error"
      /\ call[c].pc = "done" => call[c].res = "fail"

\* ---- C32 ----
\* C32: every connection an operation of the orchestrator opens has been
\* closed when the operation returns or throws, on success and on every
\* failure path.
C32_NoConnectionLeftOpen ==
  \A c \in Calls : call[c].pc \in {"idle", "done"} => call[c].open = 0

\* ---- C33 ----
\* The ready event subscribers are told of for a name.
ReadyTypeOf(n) ==
  IF n = "apache-arrow" THEN "arrowReady"
  ELSE IF n = "duckdb" THEN "duckdbReady"
  ELSE IF n = "wasm-core" THEN "wasmReady"
  ELSE "dependencyReady"

\* The events DependencyEventSystem emits in a step: the event the registry
\* emits in it, handled by the handler eventHandlers holds at that moment.
NewlyDelivered(n) ==
  IF Len(events') > Len(events)
  THEN handleRegistryEvent(<<>>, listening, events'[Len(events')], n)
  ELSE <<>>

\* C33: for every dependency that loads successfully, subscribers of
\* DependencyEventSystem get exactly one dependencyLoading event and exactly
\* one ready-type event, also for loads started after clearAll(): the step
\* in which a load creates the record of its name delivers one
\* dependencyLoading event, the later steps of the load deliver none, and
\* the step in which the load's promise resolves delivers one event of the
\* ready type of the name.
C33_OneLoadingOneReady ==
  [][ \A id \in Chains :
        LET n == chain'[id].name IN
        /\ (chain[id].phase = "free" /\ chain'[id].phase # "free" /\ dependencies[n] = 0) =>
             NewlyDelivered(n) = <<[type |-> "dependencyLoading", dependency |-> n]>>
        /\ (chain[id].phase # "free" /\ chain'[id] # chain[id]) =>
             \A i \in 1..Len(NewlyDelivered(n)) : NewlyDelivered(n)[i].type # "dependencyLoading"
        /\ (chain[id].promise = "pending" /\ chain'[id].promise = "resolved") =>
             NewlyDelivered(n) = <<[type |-> ReadyTypeOf(n), dependency |-> n]>> ]_vars

\* ---- C34 ----
\* C34: once the promise of a load has settled, the load does nothing
\* further: no deadline timer and no retry timer of it is pending, and its
\* loader is not invoked again.
C34_SettledLoadIsOver ==
  [][ \A id \in Chains :
        chain'[id].promise # "pending" =>
          /\ ~chain'[id].timer
          /\ chain'[id].phase # "retrywait"
          /\ chain[id].promise # "pending" => chain'[id].attempts = chain[id].attempts ]_vars

\* ---- C35 ----
\* C35: after any sequence of set, get, has, delete, clear and cleanup
\* calls that have returned, the byte total the manager tracks is the sum
\* of the sizes of the entries it stores, and is not negative.
C35_TrackedTotalIsSum ==
  ~cmHung =>
    /\ currentSize = SumSizes(cmEntries, cmOrder)
    /\ currentSize >= 0

\* ---- C36 ----
\* C36: set terminates for every key, value and state of the cache: no
\* call of set is in an eviction loop whose passes remove nothing.
C36_SetTerminates == ~cmHung

\* ---- C37 ----
\* Two initialize calls overlapped (the second was handed the load the
\* first had started) and both have returned.
BothInitializesReturned ==
  /\ initCall[1].pc = "returned" /\ initCall[2].pc = "returned"
  /\ initCall[2].load = initCall[1].load

\* C37: initialize() is idempotent under concurrency: when a second call
\* was made while the first was in progress, the SQL engine is loaded once
\* and the manager the facade holds is the one that was initialized, so
\* once both calls have returned and 'duckdb' is ready, query() finds its
\* manager initialized.
C37_ConcurrentInitializeOneManager ==
  (BothInitializesReturned /\ isDependencyReady(depRecord, depObj)) =>
    /\ HasConnection(managers, duckdb)
    /\ Cardinality({m \in EngineInits : managers[m].conn}) = 1

\* ---- C38 ----
\* The CREATE TABLE of proxied registration c succeeds in this step.
ProxiedTableCreated(c) ==
  /\ Created(c) /\ call[c].path = "proxied"
  /\ sqlTables'[call[c].name] # sqlTables[call[c].name]

\* C38: when the calls made are registerCloudTable calls for one name, the
\* table a proxied registration creates is read from that registration's
\* own URL (the URL it then stores in the name's registry entry): the
\* virtual file another call registered under `<name>.<ext>` is never the
\* input of its CREATE TABLE.
C38_TableReadFromRegisteredUrl ==
  [][ \A c \in Calls :
        (ProxiedTableCreated(c) /\ \A d \in Calls : call[d].op \in {"idle", "register"}) =>
          sqlTables'[call[c].name].src = call[c].url.id ]_vars

\* ---- C39 ----
\* The loadDependency call this step makes, 0 if it makes none.
CallMade == IF NumLoadCalls' = NumLoadCalls + 1 THEN NumLoadCalls + 1 ELSE 0

\* The load of the name has settled and no clear has forgotten it.
SettledInMap(n) ==
  loadingPromises[n] # 0 /\ chain[loadingPromises[n]].promise # "pending"

\* C39: once the load of a name has settled (resolved with its module, or
\* rejected by an error or by the timeout), every loadDependency call for
\* that name made before a clearDependency or clearAll is handed the same
\* promise, settled as it was, and its loader is not invoked, no new load
\* starts and no timer is armed.
C39_SettledLoadNotRerun ==
  [][ \A n \in DepNames :
        LET k == CallMade
            p == received'[k].promise
        IN (k # 0 /\ SettledInMap(n) /\ chain'[p].name = n) =>
             /\ p = loadingPromises[n]
             /\ loadingPromises' = loadingPromises
             /\ chain' = chain
             /\ invoked' = invoked
             /\ nChains' = nChains ]_vars

\* A call was handed the promise of a load that had already been rejected,
\* and its loader was dropped.
C39_Witness ==
  \E k \in LoadCalls :
    /\ Called(k) /\ received[k].settled /\ k \notin invoked
    /\ chain[received[k].promise].promise = "rejected"
    /\ chain[received[k].promise].loader # k

\* ---- C40 ----
\* C40: in every reachable state of AuthManager the token cache is empty,
\* refreshTokenIfNeeded has returned false without contacting a token
\* endpoint, and the OAuth2 headers getAuthHeaders returned carry the
\* configured oauth2Token, no token endpoint contacted either.
C40_TokenCacheAlwaysEmpty ==
  /\ \A p \in Providers : tokens[p] = NoTokenInfo
  /\ ~authLast.fetched
  /\ authLast.op = "refreshTokenIfNeeded" => authLast.result = "false"
  /\ ( /\ authLast.op = "getAuthHeaders" /\ authLast.method = "oauth2"
       /\ authLast.credentials # NoCredentials
       /\ authLast.result # "NO_OAUTH2_TOKEN" )
     => authLast.result = authLast.credentials.oauth2Token

\* OAuth2 headers were returned for a provider with a configured token.
C40_Witness ==
  /\ authLast.op = "getAuthHeaders" /\ authLast.method = "oauth2"
  /\ authLast.credentials # NoCredentials
  /\ authLast.result = authLast.credentials.oauth2Token
  /\ authLast.result # ""

====
